---- MODULE Spec2Model ----
(***************************************************************************)
(* Model of the wns_menues price/recipe pipeline: the three extractors of  *)
(* core/parsers.py, the ETL service of core/services.py, the tables of     *)
(* core/models.py and the cost calculation of api/services.py.             *)
(*                                                                         *)
(* Text is modelled as sequences of one-character strings.  Numbers that   *)
(* Python holds as float or Decimal are modelled as exact decimal          *)
(* fractions [n |-> numerator, d |-> number of fraction digits]; the       *)
(* arithmetic the code performs on them (scaling by 0.25, by 1000, ceil)   *)
(* is exact on the values the model draws, so the fraction is the value.   *)
(***************************************************************************)
EXTENDS Integers, Sequences, FiniteSets, TLC

(***************************************************************************)
(* Bounds of the model.                                                    *)
(***************************************************************************)
MaxPdfPages == 2
MaxRows == 2
MaxRecipes == 2
MaxRecipeId == 3

(***************************************************************************)
(* Characters and the str methods the code uses.                           *)
(***************************************************************************)
Digits == {"0", "1", "2", "3", "4", "5", "6", "7", "8", "9"}
UpperLetters ==
    <<"A", "B", "C", "D", "E", "F", "G", "H", "I", "J", "K", "L", "M",
      "N", "O", "P", "Q", "R", "S", "T", "U", "V", "W", "X", "Y", "Z",
      "I_acute", "O_acute">>
LowerLetters ==
    <<"a", "b", "c", "d", "e", "f", "g", "h", "i", "j", "k", "l", "m",
      "n", "o", "p", "q", "r", "s", "t", "u", "v", "w", "x", "y", "z",
      "i_acute", "o_acute">>
\* [a-zA-Z]
AsciiLetters ==
    {UpperLetters[i] : i \in 1..(Len(UpperLetters) - 2)}
        \cup {LowerLetters[i] : i \in 1..(Len(LowerLetters) - 2)}
Whitespace == {" ", "\t"}

DigitValue(c) ==
    CASE c = "0" -> 0 [] c = "1" -> 1 [] c = "2" -> 2 [] c = "3" -> 3
      [] c = "4" -> 4 [] c = "5" -> 5 [] c = "6" -> 6 [] c = "7" -> 7
      [] c = "8" -> 8 [] c = "9" -> 9

\* the lower-case form of each upper-case letter, as an explicit function
RECURSIVE LowerMapFrom(_)
LowerMapFrom(i) ==
    IF i > Len(UpperLetters) THEN <<>>
    ELSE (UpperLetters[i] :> LowerLetters[i]) @@ LowerMapFrom(i + 1)
LowerMap == LowerMapFrom(1)

LowerChar(c) == IF c \in DOMAIN LowerMap THEN LowerMap[c] ELSE c

\* str.lower()
Lower(s) == [i \in 1..Len(s) |-> LowerChar(s[i])]

\* str.strip(): drop the leading and the trailing whitespace run
Strip(s) ==
    LET keep == {i \in 1..Len(s) : s[i] \notin Whitespace}
    IN  IF keep = {} THEN <<>>
        ELSE LET lo == CHOOSE i \in keep : \A j \in keep : i <= j
                 hi == CHOOSE i \in keep : \A j \in keep : j <= i
             IN  SubSeq(s, lo, hi)

\* s[i:].startswith(p), i counted from 1
StartsWithAt(s, i, p) ==
    /\ i + Len(p) - 1 <= Len(s)
    /\ \A k \in 1..Len(p) : s[i + k - 1] = p[k]

StartsWith(s, p) == StartsWithAt(s, 1, p)

\* p in s
Contains(s, p) == \E i \in 1..(Len(s) + 1) : StartsWithAt(s, i, p)

\* first index of character c in s, 0 when absent
IndexOf(s, c) ==
    IF \E i \in 1..Len(s) : s[i] = c
    THEN CHOOSE i \in 1..Len(s) : s[i] = c /\ \A j \in 1..(i - 1) : s[j] # c
    ELSE 0

\* s.replace(c, ''), c one character
RECURSIVE RemoveChar(_, _)
RemoveChar(s, c) ==
    IF s = <<>> THEN <<>>
    ELSE IF Head(s) = c THEN RemoveChar(Tail(s), c)
    ELSE <<Head(s)>> \o RemoveChar(Tail(s), c)

\* s.replace(c, r), c and r one character each
ReplaceChar(s, c, r) == [i \in 1..Len(s) |-> IF s[i] = c THEN r ELSE s[i]]

\* s.replace(p, ''), p a non-empty string: leftmost occurrences, not overlapping
RECURSIVE RemoveAll(_, _)
RemoveAll(s, p) ==
    IF s = <<>> THEN <<>>
    ELSE IF StartsWith(s, p) THEN RemoveAll(SubSeq(s, Len(p) + 1, Len(s)), p)
    ELSE <<Head(s)>> \o RemoveAll(Tail(s), p)

\* sep.join(parts)
RECURSIVE Join(_, _)
Join(parts, sep) ==
    IF parts = <<>> THEN <<>>
    ELSE IF Len(parts) = 1 THEN parts[1]
    ELSE parts[1] \o sep \o Join(Tail(parts), sep)

\* end of the maximal run of characters of class cls that starts at i
\* (i - 1 when s[i] is not in cls)
RECURSIVE RunEnd(_, _, _)
RunEnd(s, i, cls) ==
    IF i <= Len(s) /\ s[i] \in cls THEN RunEnd(s, i + 1, cls) ELSE i - 1

(***************************************************************************)
(* Numbers.                                                                *)
(***************************************************************************)
RECURSIVE Pow10(_)
Pow10(k) == IF k = 0 THEN 1 ELSE 10 * Pow10(k - 1)

RECURSIVE DigitsValue(_)
DigitsValue(s) ==
    IF s = <<>> THEN 0 ELSE 10 * DigitsValue(SubSeq(s, 1, Len(s) - 1)) + DigitValue(s[Len(s)])

NoNumber == [ok |-> FALSE, n |-> 0, d |-> 0]

\* float(s) on the literals the model's texts can hold: an optional sign,
\* digits with at most one '.', at least one digit.  Anything else raises
\* ValueError (ok = FALSE).  The texts of the model hold no exponent, no
\* "inf"/"nan" and no underscore.
ParseFloat(s) ==
    LET signed == s # <<>> /\ s[1] \in {"-", "+"}
        body == IF signed THEN Tail(s) ELSE s
        dot == IndexOf(body, ".")
        int == IF dot = 0 THEN body ELSE SubSeq(body, 1, dot - 1)
        frac == IF dot = 0 THEN <<>> ELSE SubSeq(body, dot + 1, Len(body))
        wellformed ==
            /\ \A i \in 1..Len(int) : int[i] \in Digits
            /\ \A i \in 1..Len(frac) : frac[i] \in Digits
            /\ Len(int) + Len(frac) >= 1
        mag == DigitsValue(int \o frac)
    IN  IF ~wellformed THEN NoNumber
        ELSE [ok |-> TRUE,
              n |-> IF signed /\ s[1] = "-" THEN 0 - mag ELSE mag,
              d |-> Len(frac)]

\* ceil(a / b) for b > 0
CeilDiv(a, b) == 0 - ((0 - a) \div b)

\* Decimal.quantize to `places` fraction digits, ROUND_HALF_EVEN: the value
\* v.n / 10^v.d as an integer count of 10^-places
Quantize(v, places) ==
    IF v.d <= places THEN v.n * Pow10(places - v.d)
    ELSE LET div == Pow10(v.d - places)
             q == v.n \div div
             r == v.n % div
         IN  IF 2 * r > div THEN q + 1
             ELSE IF 2 * r = div THEN q + (q % 2)
             ELSE q

(***************************************************************************)
(* core/parsers.py: the Line-Text Extractor.  A document is                *)
(* [readable, pages]; a page is the sequence of the lines of its extracted *)
(* text, <<>> when the page yields no text.                                *)
(***************************************************************************)
RECURSIVE Flatten(_)
Flatten(seqs) == IF seqs = <<>> THEN <<>> ELSE Head(seqs) \o Flatten(Tail(seqs))

\* [line.strip() for line in full_text.split('\n') if line.strip()]
RECURSIVE NonBlankStripped(_)
NonBlankStripped(lines) ==
    IF lines = <<>> THEN <<>>
    ELSE IF Strip(Head(lines)) = <<>> THEN NonBlankStripped(Tail(lines))
    ELSE <<Strip(Head(lines))>> \o NonBlankStripped(Tail(lines))

\* line.split('$')[0]
BeforeMarker(line) == SubSeq(line, 1, IndexOf(line, "$") - 1)

\* line.split('$')[1]: the text between the first marker and the next one
AfterMarker(line) ==
    LET rest == SubSeq(line, IndexOf(line, "$") + 1, Len(line))
        nxt == IndexOf(rest, "$")
    IN  IF nxt = 0 THEN rest ELSE SubSeq(rest, 1, nxt - 1)

\* the loop over the lines; a float() that raises ends it
\* no products: the loop raised
PdfLinesFailed == [ok |-> FALSE, productos |-> <<>>]

RECURSIVE PdfLines(_, _)
PdfLines(lines, productos) ==
    IF lines = <<>> THEN [ok |-> TRUE, productos |-> productos]
    ELSE LET line == Head(lines) IN
         IF IndexOf(line, "$") = 0 THEN PdfLines(Tail(lines), productos)
         ELSE LET nombre == Strip(BeforeMarker(line))
                  precio == ParseFloat(RemoveChar(Strip(AfterMarker(line)), "."))
              IN  IF ~precio.ok THEN PdfLinesFailed
                  ELSE PdfLines(Tail(lines),
                                Append(productos,
                                       [nombre |-> nombre,
                                        precio |-> [n |-> precio.n, d |-> precio.d]]))

PdfError == "Error al procesar el PDF de verduras"

parse_pdf(file_buffer) ==
    IF ~file_buffer.readable THEN [ok |-> FALSE, productos |-> <<>>, error |-> PdfError]
    ELSE LET r == PdfLines(NonBlankStripped(Flatten(file_buffer.pages)), <<>>)
         IN  IF r.ok THEN [ok |-> TRUE, productos |-> r.productos, error |-> ""]
             ELSE [ok |-> FALSE, productos |-> <<>>, error |-> PdfError]

(***************************************************************************)
(* core/parsers.py: the Tabular Extractor.  A workbook is                  *)
(* [readable, grid]; the grid is a sequence of rows of equal length; a     *)
(* cell is [isna, text], text being str() of the cell's value.             *)
(***************************************************************************)
ENCABEZADOS ==
    { <<"c", "a", "r", "n", "i", "c", "e", "r", "i_acute", "a">>,
      <<"c", "a", "r", "n", "e", " ", "v", "a", "c", "u", "n", "a">>,
      <<"c", "a", "r", "n", "e", " ", "d", "e", " ", "c", "e", "r", "d", "o">>,
      <<"c", "o", "r", "t", "e">>,
      <<"p", "r", "e", "c", "i", "o">> }

NumChars == Digits \cup {".", ","}

\* re.search(r'([\d\.,]+)', s).group(1): the leftmost maximal run, <<>> when none
FirstNumRun(s) ==
    IF \E i \in 1..Len(s) : s[i] \in NumChars
    THEN LET i == CHOOSE k \in 1..Len(s) :
                     s[k] \in NumChars /\ \A j \in 1..(k - 1) : s[j] \notin NumChars
         IN  SubSeq(s, i, RunEnd(s, i, NumChars))
    ELSE <<>>

\* str.isdigit()
IsDigit(s) == s # <<>> /\ \A i \in 1..Len(s) : s[i] \in Digits

\* a variant that takes header cells for labels; C14 must tell it from
\* ExcelCell
ExcelCellKeepsHeaders(precio_raw, nombre_raw) ==
    IF precio_raw.isna THEN <<>>
    ELSE LET precio_str == Strip(precio_raw.text)
             run == FirstNumRun(precio_str)
             precio == ParseFloat(ReplaceChar(RemoveChar(run, "."), ",", "."))
             nombre == Strip(nombre_raw.text)
         IN  IF run = <<>> THEN <<>>
             ELSE IF ~precio.ok THEN <<>>
             ELSE IF nombre_raw.isna THEN <<>>
             ELSE IF \/ nombre = <<>>
                     \/ IsDigit(RemoveChar(RemoveChar(nombre, "."), ","))
                  THEN <<>>
             ELSE << [nombre |-> nombre, precio |-> [n |-> precio.n, d |-> precio.d]] >>

\* one cell of the scan: <<>> when the cell is skipped, else the one record
ExcelCell(precio_raw, nombre_raw) ==
    IF precio_raw.isna THEN <<>>
    ELSE LET precio_str == Strip(precio_raw.text)
             run == FirstNumRun(precio_str)
             precio == ParseFloat(ReplaceChar(RemoveChar(run, "."), ",", "."))
             nombre == Strip(nombre_raw.text)
         IN  IF run = <<>> THEN <<>>
             ELSE IF ~precio.ok THEN <<>>
             ELSE IF nombre_raw.isna THEN <<>>
             ELSE IF \/ nombre = <<>>
                     \/ Lower(nombre) \in ENCABEZADOS
                     \/ IsDigit(RemoveChar(RemoveChar(nombre, "."), ","))
                  THEN <<>>
             ELSE << [nombre |-> nombre, precio |-> [n |-> precio.n, d |-> precio.d]] >>

\* the columns 1.. of one row (Python's index), left to right
RECURSIVE ExcelRow(_, _)
ExcelRow(row, col) ==
    IF col > Len(row) THEN <<>>
    ELSE ExcelCell(row[col], row[col - 1]) \o ExcelRow(row, col + 1)

RECURSIVE ExcelRows(_)
ExcelRows(grid) ==
    IF grid = <<>> THEN <<>> ELSE ExcelRow(Head(grid), 2) \o ExcelRows(Tail(grid))

ExcelError == "Error al procesar el Excel de carnes"

parse_excel(file_buffer) ==
    IF ~file_buffer.readable THEN [ok |-> FALSE, productos |-> <<>>, error |-> ExcelError]
    ELSE [ok |-> TRUE, productos |-> ExcelRows(file_buffer.grid), error |-> ""]

(***************************************************************************)
(* core/parsers.py: the Recipe Markup Parser.  The content is the sequence *)
(* of its lines (file_content.split('\n')).                                *)
(***************************************************************************)
NoMatch == [matched |-> FALSE, cant |-> <<>>, unit |-> <<>>, name |-> <<>>]

\* [-*a-zA-Z0-9]
PrefixChars == {"-", "*"} \cup AsciiLetters \cup Digits

\* (kg|g) at position u, ignoring case: the length matched, 0 when none
UnitLen(line, u) ==
    IF StartsWithAt(Lower(line), u, <<"k", "g">>) THEN 2
    ELSE IF StartsWithAt(Lower(line), u, <<"g">>) THEN 1
    ELSE 0

\* (?P<c1>[\d,.]+)\s*(?P<u1>kg|g)\s*de\s*(?P<n1>.+) at position p
RegexAlt1(line, p) ==
    LET cEnd == RunEnd(line, p, NumChars)
        u == RunEnd(line, cEnd + 1, Whitespace) + 1
        ulen == UnitLen(line, u)
        de == RunEnd(line, u + ulen, Whitespace) + 1
        n == RunEnd(line, de + 2, Whitespace) + 1
    IN  IF /\ cEnd >= p
           /\ ulen > 0
           /\ StartsWithAt(Lower(line), de, <<"d", "e">>)
           /\ n <= Len(line)
        THEN [matched |-> TRUE,
              cant |-> SubSeq(line, p, cEnd),
              unit |-> SubSeq(line, u, u + ulen - 1),
              name |-> SubSeq(line, n, Len(line))]
        ELSE NoMatch

\* \s*(?P<c2>[\d,.]+)\s*(?P<u2>kg|g) at position k (what follows the colon)
RegexTail2(line, k) ==
    LET a == RunEnd(line, k, Whitespace) + 1
        cEnd == RunEnd(line, a, NumChars)
        u == RunEnd(line, cEnd + 1, Whitespace) + 1
        ulen == UnitLen(line, u)
    IN  IF cEnd >= a /\ ulen > 0
        THEN [matched |-> TRUE,
              cant |-> SubSeq(line, a, cEnd),
              unit |-> SubSeq(line, u, u + ulen - 1),
              name |-> <<>>]
        ELSE NoMatch

\* (?P<n2>.+):\s*(?P<c2>[\d,.]+)\s*(?P<u2>kg|g) at position p: the greedy
\* .+ gives the name up to the last colon after which the rest matches
RegexAlt2(line, p) ==
    LET colons == {j \in (p + 1)..Len(line) :
                      line[j] = ":" /\ RegexTail2(line, j + 1).matched}
    IN  IF colons = {} THEN NoMatch
        ELSE LET j == CHOOSE c \in colons : \A o \in colons : o <= c
                 t == RegexTail2(line, j + 1)
             IN  [t EXCEPT !.name = SubSeq(line, p, j - 1)]

\* the alternatives at the start positions the backtracking of \s+ allows,
\* from the longest whitespace run (position hi) down to one blank (lo)
RECURSIVE RegexAlternatives(_, _, _)
RegexAlternatives(line, lo, p) ==
    IF p < lo THEN NoMatch
    ELSE IF RegexAlt1(line, p).matched THEN RegexAlt1(line, p)
    ELSE IF RegexAlt2(line, p).matched THEN RegexAlt2(line, p)
    ELSE RegexAlternatives(line, lo, p - 1)

\* regex_ing.search(line): the pattern starts with ^, so it matches at the
\* start of the line or not at all; its prefix (?:^[-*a-zA-Z0-9]+\.?\s+) is
\* not optional
regex_ing(line) ==
    LET r == RunEnd(line, 1, PrefixChars)
        dot == IF /\ r + 2 <= Len(line)
                  /\ line[r + 1] = "."
                  /\ line[r + 2] \in Whitespace
               THEN r + 1 ELSE r
        wsEnd == RunEnd(line, dot + 1, Whitespace)
    IN  IF r >= 1 /\ wsEnd >= dot + 1
        THEN RegexAlternatives(line, dot + 2, wsEnd + 1)
        ELSE NoMatch

\* the parser's loop state after construction (lines 113-116)
MdStart == [recetas |-> <<>>, current_receta |-> <<>>,
            reading_ingredientes |-> FALSE, raised |-> FALSE]

IsTitle(line) == StartsWith(line, <<"#", " ">>)
IsIngredientHeading(line) ==
    /\ \/ Contains(Lower(line), <<"i", "n", "g", "r", "e", "d", "i", "e", "n", "t", "e", "s">>)
       \/ Contains(Lower(line), <<"l", "i", "s", "t", "a">>)
    /\ StartsWith(line, <<"#", "#">>)
IsInstructionHeading(line) ==
    /\ \/ Contains(Lower(line),
                   <<"i", "n", "s", "t", "r", "u", "c", "c", "i", "o", "n", "e", "s">>)
       \/ Contains(Lower(line),
                   <<"p", "r", "e", "p", "a", "r", "a", "c", "i", "o_acute", "n">>)
    /\ StartsWith(line, <<"#", "#">>)

\* a line of an ingredient section that regex_ing matched as m and whose
\* quantity float() read as cant (lines 153-171)
MdIngredient(st, m, cant) ==
    IF ~m.matched \/ ~cant.ok THEN st
    ELSE IF st.current_receta = <<>> THEN [st EXCEPT !.raised = TRUE]
    ELSE [st EXCEPT !.current_receta[1].ingredientes =
              Append(@, [nombre |-> Strip(m.name),
                         cantidad_kg |->
                             [n |-> cant.n,
                              d |-> IF Lower(m.unit) = <<"g">>
                                    THEN cant.d + 3 ELSE cant.d]])]

\* a line of an ingredient section (lines 149-171)
MdMatch(st, m) == MdIngredient(st, m, ParseFloat(ReplaceChar(m.cant, ",", ".")))

\* the body of the loop for one stripped, non-empty line (lines 129-173)
MdStripped(st, line) ==
    IF st.raised \/ line = <<>> THEN st
    ELSE IF IsTitle(line) THEN
        [st EXCEPT
           !.recetas = IF st.current_receta # <<>>
                       THEN Append(@, st.current_receta[1]) ELSE @,
           !.current_receta =
               << [nombre |-> Strip(RemoveAll(line, <<"#", " ">>)),
                   ingredientes |-> <<>>,
                   instrucciones |-> <<>>] >>,
           !.reading_ingredientes = FALSE]
    ELSE IF IsIngredientHeading(line) THEN [st EXCEPT !.reading_ingredientes = TRUE]
    ELSE IF IsInstructionHeading(line) THEN [st EXCEPT !.reading_ingredientes = FALSE]
    ELSE IF st.reading_ingredientes THEN MdMatch(st, regex_ing(line))
    ELSE IF st.current_receta # <<>> /\ ~StartsWith(line, <<"#">>) THEN
        [st EXCEPT !.current_receta[1].instrucciones = @ \o line \o <<"\n">>]
    ELSE st

\* the body of the loop for one line (lines 124-173)
MdLine(st, raw_line) == MdStripped(st, Strip(raw_line))

RECURSIVE MdLines(_, _)
MdLines(st, lines) ==
    IF lines = <<>> THEN st ELSE MdLines(MdLine(st, Head(lines)), Tail(lines))

MdFailed == [ok |-> FALSE, recetas |-> <<>>]

\* parse_md: [ok, recetas]; ok = FALSE when the loop raised (KeyError); the
\* recipe being read when the lines end is appended (lines 175-176)
MdResult(st) ==
    IF st.raised THEN MdFailed
    ELSE [ok |-> TRUE,
          recetas |-> IF st.current_receta # <<>>
                      THEN Append(st.recetas, st.current_receta[1])
                      ELSE st.recetas]

parse_md(file_content) == MdResult(MdLines(MdStart, file_content))

(***************************************************************************)
(* The inputs the model draws.                                             *)
(***************************************************************************)
\* all the sequences of at most n elements of pool
RECURSIVE SeqsUpTo(_, _)
SeqsUpTo(pool, n) ==
    IF n = 0 THEN {<<>>}
    ELSE LET shorter == SeqsUpTo(pool, n - 1)
         IN  shorter \cup {Append(s, x) : s \in shorter, x \in pool}

\* the names of uploaded files
NameMd == <<"r", ".", "m", "d">>
NameMdUpper == <<"R", ".", "M", "D">>
NamePdf == <<"v", ".", "p", "d", "f">>
NameXls == <<"c", ".", "x", "l", "s">>
NameXlsx == <<"c", ".", "v", "1", ".", "x", "l", "s", "x">>
NameTxt == <<"r", ".", "t", "x", "t">>
NameNoExt == <<"m", "d">>
FileNames == {NameMd, NameMdUpper, NamePdf, NameXls, NameXlsx, NameTxt, NameNoExt}

\* pages of vegetable price documents; NoText is a page without text
NoText == <<>>
PageTomatePapa ==
    << <<"T", "o", "m", "a", "t", "e", " ", "3", "0", "0">>,
       <<"P", "a", "p", "a", " ", "$", " ", "5", "0", "0">> >>
PagePapaUpper ==
    << <<" ", "P", "A", "P", "A", " ", "$", " ", "1", ".", "2", "0", "0", " ">> >>
PagePapaNegative ==
    << <<"P", "a", "p", "a", " ", "$", " ", "-", "5">> >>
PagePapaWord ==
    << <<"P", "a", "p", "a", " ", "$", " ", "x">> >>
PdfPagePool == {NoText, PageTomatePapa, PagePapaUpper, PagePapaNegative, PagePapaWord}

UnreadableFile == [readable |-> FALSE, pages |-> <<>>, grid |-> <<>>]
PdfFile(pages) == [readable |-> TRUE, pages |-> pages, grid |-> <<>>]
PdfFiles == {UnreadableFile} \cup {PdfFile(ps) : ps \in SeqsUpTo(PdfPagePool, MaxPdfPages)}
PdfFileTomatePapa == PdfFile(<<PageTomatePapa>>)
PdfFilesFew == {PdfFileTomatePapa, PdfFile(<<PagePapaUpper>>)}
\* with a document whose price is no number
PdfFilesFaulty == PdfFilesFew \cup {PdfFile(<<PagePapaWord>>)}

\* a line with a second marker
PagePapaTwoMarkers ==
    << <<"P", "a", "p", "a", " ", "$", " ", "5", " ", "$", " ", "6">> >>
\* the documents handed to the extractor alone
PdfDocuments ==
    {UnreadableFile}
        \cup {PdfFile(ps) : ps \in SeqsUpTo(PdfPagePool \cup {PagePapaTwoMarkers}, MaxPdfPages)}

\* rows of meat price sheets, three columns wide
NaN == [isna |-> TRUE, text |-> <<>>]
Text(s) == [isna |-> FALSE, text |-> s]
RowCarne ==
    << Text(<<" ", "C", "a", "r", "n", "e">>),
       Text(<<"$", " ", "1", ".", "0", "0", "0">>),
       NaN >>
RowCarneUpper ==
    << Text(<<"C", "A", "R", "N", "E">>),
       Text(<<"1", "5", "0", "0", ",", "5", "0">>),
       Text(<<"$">>) >>
RowHeader ==
    << Text(<<" ", "C", "o", "r", "t", "e">>),
       Text(<<"1", "0", "0">>),
       Text(<<"1", ",", "2", ",", "3">>) >>
RowNumericLabel ==
    << Text(<<"1", ".", "2", "3">>),
       Text(<<"1", "0", "0">>),
       Text(<<"k", "g">>) >>
RowNoLabel ==
    << NaN,
       Text(<<"5", "0", "0">>),
       Text(<<" ">>) >>
\* a cell that is a price and the label of the next one
RowLomoTwice ==
    << Text(<<"L", "o", "m", "o">>),
       Text(<<"x", " ", "5">>),
       Text(<<"7", " ", "8">>) >>
ExcelRowPool == {RowCarne, RowCarneUpper, RowHeader, RowNumericLabel, RowNoLabel}

ExcelFile(grid) == [readable |-> TRUE, pages |-> <<>>, grid |-> grid]
ExcelFiles == {UnreadableFile} \cup {ExcelFile(g) : g \in SeqsUpTo(ExcelRowPool, MaxRows)}
ExcelFilesFew == {ExcelFile(<<RowCarne>>)}
\* with a file that is no workbook
ExcelFilesFaulty == ExcelFilesFew \cup {UnreadableFile}
\* the sheets handed to the extractor alone
ExcelSheets ==
    {UnreadableFile}
        \cup {ExcelFile(g) : g \in SeqsUpTo(ExcelRowPool \cup {RowLomoTwice}, MaxRows)}

\* recipe documents: at most MaxRecipes blocks of lines, one after another
BlockAsado ==
    << <<"#", " ", "A", "s", "a", "d", "o">>,
       <<"#", "#", " ", "I", "n", "g", "r", "e", "d", "i", "e", "n", "t", "e", "s">>,
       <<"-", " ", "1", " ", "k", "g", " ", "d", "e", " ", "C", "a", "r", "n", "e">>,
       <<"-", " ", "0", ".", "2", "5", " ", "k", "g", " ", "d", "e", " ", "P", "a", "p", "a">>,
       <<"#", "#", " ", "I", "n", "s", "t", "r", "u", "c", "c", "i", "o", "n", "e", "s">>,
       <<"A", "s", "a", "r", ".">> >>
BlockPan ==
    << <<"#", " ", "P", "a", "n">>,
       <<"#", "#", " ", "L", "i", "s", "t", "a">>,
       <<"*", " ", "P", "a", "p", "a", ":", " ", "0", ",", "2", "6", " ", "k", "g">>,
       <<"1", ".", " ", "3", "0", "0", " ", "g", " ", "d", "e", " ", "P", "A", "P", "A">>,
       <<"-", " ", "0", ".", "2", " ", "g", " ", "d", "e", " ", "P", "a", "p", "a">> >>
BlockAsadoSal ==
    << <<"#", " ", "A", "s", "a", "d", "o">>,
       <<"#", "#", " ", "I", "n", "g", "r", "e", "d", "i", "e", "n", "t", "e", "s">>,
       <<"-", " ", "1", " ", "k", "g", " ", "d", "e", " ", "S", "a", "l">>,
       <<"-", " ", "C", "a", "r", "n", "e", ":", " ", "1", " ", "k", "g">>,
       <<"-", " ", "2", " ", "g", " ", "d", "e", " ", "A", "j", "o">> >>
BlockSopa ==
    << <<"#", " ", "S", "o", "p", "a">>,
       <<"H", "e", "r", "v", "i", "r", ".">> >>
BlockNoTitle ==
    << <<"#", "#", " ", "I", "n", "g", "r", "e", "d", "i", "e", "n", "t", "e", "s">>,
       <<"-", " ", "1", " ", "k", "g", " ", "d", "e", " ", "P", "a", "p", "a">> >>
BlockBife ==
    << <<"#", " ", "B", "i", "f", "e">>,
       <<"#", "#", " ", "I", "n", "g", "r", "e", "d", "i", "e", "n", "t", "e", "s">>,
       <<"-", " ", "1", " ", "k", "g", " ", "d", "e", " ", "C", "a", "r", "n", "e">> >>
MdBlockPool == {BlockAsado, BlockPan, BlockAsadoSal, BlockSopa, BlockNoTitle}

UndecodableFile == [decodable |-> FALSE, lines |-> <<>>]
MdFile(lines) == [decodable |-> TRUE, lines |-> lines]
MdFilesFew == {MdFile(BlockBife), MdFile(BlockPan \o BlockAsado)}
MdFiles ==
    {UndecodableFile} \cup MdFilesFew
        \cup {MdFile(Flatten(bs)) : bs \in SeqsUpTo(MdBlockPool, MaxRecipes)}
\* ingredient lines without a list prefix
BlockGuiso ==
    << <<"#", " ", "G", "u", "i", "s", "o">>,
       <<"#", "#", " ", "I", "n", "g", "r", "e", "d", "i", "e", "n", "t", "e", "s">>,
       <<"1", " ", "k", "g", " ", "d", "e", " ", "P", "a", "p", "a">>,
       <<"C", "a", "r", "n", "e", ":", " ", "0", ".", "5", " ", "k", "g">>,
       <<"#", "#", " ", "I", "n", "s", "t", "r", "u", "c", "c", "i", "o", "n", "e", "s">>,
       <<"H", "e", "r", "v", "i", "r", ".">>,
       <<"S", "e", "r", "v", "i", "r", ".">> >>
\* list prefixes and units in capitals
BlockLocro ==
    << <<" ", "#", " ", "L", "o", "c", "r", "o", " ">>,
       <<"#", "#", " ", "L", "i", "s", "t", "a">>,
       <<"-", " ", "1", " ", "K", "G", " ", "d", "e", " ", "P", "a", "p", "a", " ">>,
       <<"*", " ", "C", "a", "r", "n", "e", ":", " ", "0", ",", "5", " ", "K", "g">>,
       <<"2", ".", " ", "2", "5", "0", " ", "G", " ", "d", "e", " ", "S", "a", "l">>,
       <<"-", " ", "u", "n", "a", " ", "p", "i", "z", "c", "a">> >>
\* a heading that names both the preparation and the ingredients
BlockFlan ==
    << <<"#", " ", "F", "l", "a", "n">>,
       <<"#", "#", " ", "I", "n", "g", "r", "e", "d", "i", "e", "n", "t", "e", "s">>,
       <<"-", " ", "1", " ", "k", "g", " ", "d", "e", " ", "P", "a", "p", "a">>,
       <<"#", "#", " ", "P", "r", "e", "p", "a", "r", "a", "c", "i", "o_acute", "n", " ",
         "d", "e", " ", "i", "n", "g", "r", "e", "d", "i", "e", "n", "t", "e", "s">>,
       <<"B", "a", "t", "i", "r", ".">> >>
\* the documents handed to the parser alone
MdDocuments ==
    {MdFile(Flatten(bs)) :
        bs \in SeqsUpTo(MdBlockPool \cup {BlockGuiso, BlockLocro, BlockFlan}, MaxRecipes)}
\* the recipe documents two workers import side by side
MdFilesSideBySide == {MdFile(BlockBife), MdFile(BlockSopa)}
\* recipe documents of the whole pipeline: some that cannot be read or
\* stored among them
MdFilesPipeline ==
    MdFilesFew \cup {UndecodableFile, MdFile(BlockNoTitle), MdFile(BlockSopa \o BlockSopa),
                     MdFile(BlockAsado)}
\* the recipe documents on which the storage is made to fail
MdFilesFaulty == MdFilesFew \cup {MdFile(BlockSopa \o BlockPan)}

\* the statement the storage refuses in a run, if any
RecipeFaults == {"create", "bulk_create"}
IngredientFaults == {"none", "bulk_create"}

\* cost requests: the date strings, the clock and the rate source's answers
DateToday == <<"2", "0", "2", "4", "-", "0", "3", "-", "0", "1">>
DateTomorrow == <<"2", "0", "2", "4", "-", "0", "3", "-", "0", "2">>
DateMinus30 == <<"2", "0", "2", "4", "-", "0", "1", "-", "3", "1">>
DateMinus31 == <<"2", "0", "2", "4", "-", "0", "1", "-", "3", "0">>
DateNoSuchDay == <<"2", "0", "2", "4", "-", "0", "2", "-", "3", "0">>
DateDayFirst == <<"0", "1", "-", "0", "3", "-", "2", "0", "2", "4">>
DateStrings == {DateToday, DateTomorrow, DateMinus30, DateMinus31, DateNoSuchDay, DateDayFirst}
March1 == [y |-> 2024, m |-> 3, d |-> 1]
March2 == [y |-> 2024, m |-> 3, d |-> 2]
Todays == {March1, March2}
Rate1000 == [kind |-> "ok", rate |-> [n |-> 10000, d |-> 1]]
RateZero == [kind |-> "ok", rate |-> [n |-> 0, d |-> 1]]
RateTimeout == [kind |-> "Timeout", rate |-> [n |-> 0, d |-> 0]]
RateHttpError == [kind |-> "HTTPError", rate |-> [n |-> 0, d |-> 0]]
RateBadBody == [kind |-> "JSONDecodeError", rate |-> [n |-> 0, d |-> 0]]
RateNoField == [kind |-> "KeyError", rate |-> [n |-> 0, d |-> 0]]
RateFailures == {RateTimeout, RateHttpError, RateBadBody, RateNoField}
RateResponses == {Rate1000, RateZero} \cup RateFailures
RateResponsesFew == {Rate1000}
\* the cost requests of the whole pipeline: a date that is none and a rate
\* source that does not answer among them
DateStringsPipeline == {DateToday, DateNoSuchDay}
RateResponsesPipeline == {Rate1000, RateTimeout}

\* what the extractors return on each file of the model, computed once
\* (@@ makes each an explicit table)
ParsedPdf == [f \in PdfFiles |-> parse_pdf(f)] @@ <<>>
ParsedExcel == [f \in ExcelFiles |-> parse_excel(f)] @@ <<>>
ParsedMd == [f \in MdFiles |-> parse_md(f.lines)] @@ <<>>

(***************************************************************************)
(* core/models.py: the three tables.  A row of Ingredient is               *)
(* [id, name, price_per_kg], of CookingRecipe [id, name, instructions], of *)
(* CookingRecipeItem [recipe, pos, ingredient, quantity_raw,               *)
(* quantity_normalized]; pos is the row's place in the bulk insert of its  *)
(* recipe and stands for its primary key.  Decimal columns hold integer    *)
(* counts of their last fraction digit.  seq holds the AUTOINCREMENT       *)
(* counters.  The timestamp columns are left out.                          *)
(***************************************************************************)
VARIABLES ingredients, recipes, items, seq, last, runs

vars == <<ingredients, recipes, items, seq, last, runs>>

PriceDecimalPlaces == 2
QuantityDecimalPlaces == 3
NULL == 0

DB == [ingredients |-> ingredients, recipes |-> recipes, items |-> items, seq |-> seq]

\* a variant whose delete leaves the items of the deleted recipes; C24 must
\* tell it from DeleteAllRecipes
DeleteAllRecipesNoCascade(db) == [db EXCEPT !.recipes = {}]

\* a variant that deletes nothing, so that an import merges into the old
\* recipes; C2 must tell it from DeleteAllRecipes
DeleteNoRecipes(db) == db

\* CookingRecipe.objects.all().delete(): items go with their recipe
\* (on_delete=CASCADE)
DeleteAllRecipes(db) ==
    [db EXCEPT !.recipes = {},
               !.items = {it \in @ : it.recipe \notin {r.id : r \in db.recipes}}]

\* Ingredient.delete(): the items that reference it stay, with a null
\* reference (on_delete=SET_NULL)
DeleteIngredientRow(db, id) ==
    [db EXCEPT !.ingredients = {i \in @ : i.id # id},
               !.items = {IF it.ingredient = id THEN [it EXCEPT !.ingredient = NULL] ELSE it
                          : it \in @}]

(***************************************************************************)
(* core/services.py: the Ingredient Upsert Stage.                          *)
(***************************************************************************)
\* a variant that inserts absent names and leaves present rows alone
\* (ignore_conflicts); C5 must tell it from UpsertOne
UpsertOneIgnore(db, obj) ==
    IF \E r \in db.ingredients : r.name = obj.name
    THEN db
    ELSE [db EXCEPT !.ingredients =
                 @ \cup {[id |-> db.seq.ingredient + 1,
                          name |-> obj.name,
                          price_per_kg |-> obj.price_per_kg]},
                    !.seq.ingredient = @ + 1]

\* one row of bulk_create(update_conflicts=True, unique_fields=['name'],
\* update_fields=['price_per_kg', 'updated_at']): INSERT ... ON CONFLICT
\* (name) DO UPDATE, its rows applied in list order.  A backend that refuses
\* to write one row twice in a statement raises instead, which is the
\* fault "bulk_create" of an ingredient import.
UpsertOne(db, obj) ==
    IF \E r \in db.ingredients : r.name = obj.name
    THEN [db EXCEPT !.ingredients =
                 {IF r.name = obj.name
                  THEN [r EXCEPT !.price_per_kg = obj.price_per_kg] ELSE r : r \in @}]
    ELSE [db EXCEPT !.ingredients =
                 @ \cup {[id |-> db.seq.ingredient + 1,
                          name |-> obj.name,
                          price_per_kg |-> obj.price_per_kg]},
                    !.seq.ingredient = @ + 1]

RECURSIVE BulkUpsert(_, _)
BulkUpsert(db, objs) ==
    IF objs = <<>> THEN db ELSE BulkUpsert(UpsertOne(db, Head(objs)), Tail(objs))

\* a variant that empties the catalog before it writes the batch; C6 must
\* tell it from _save_base_ingredients
SaveBaseIngredientsReplacing(db, data) ==
    BulkUpsert([db EXCEPT !.ingredients = {},
                          !.items = {[it EXCEPT !.ingredient = NULL] : it \in @}],
               [k \in 1..Len(data) |->
                   [name |-> Lower(Strip(data[k].nombre)),
                    price_per_kg |-> Quantize(data[k].precio, PriceDecimalPlaces)]])

_save_base_ingredients(db, data) ==
    BulkUpsert(db, [k \in 1..Len(data) |->
                       [name |-> Lower(Strip(data[k].nombre)),
                        price_per_kg |-> Quantize(data[k].precio, PriceDecimalPlaces)]])

(***************************************************************************)
(* core/services.py: the Recipe Reconciliation & Normalization Stage.      *)
(***************************************************************************)
\* {ing.name.lower(): ing for ing in Ingredient.objects.all()}: rows come
\* in primary-key order, so of two rows with one key the later one stays
Snapshot(db) ==
    [k \in {Lower(i.name) : i \in db.ingredients} |->
        CHOOSE i \in db.ingredients :
            /\ Lower(i.name) = k
            /\ \A o \in db.ingredients : Lower(o.name) = k => o.id <= i.id]

\* a variant that rounds to the nearest step instead of up; C8 must tell it
\* from NormalizeQuantity
NormalizeQuantityNearest(raw_qty) ==
    [n |-> ((8 * raw_qty.n + Pow10(raw_qty.d)) \div (2 * Pow10(raw_qty.d))) * 25, d |-> 2]

\* math.ceil(raw_qty / 0.25) * 0.25
NormalizeQuantity(raw_qty) ==
    [n |-> CeilDiv(4 * raw_qty.n, Pow10(raw_qty.d)) * 25, d |-> 2]

\* a variant that names the first missing ingredient only; C4 must tell it
\* from RejectionMessage
RejectionMessageFirst(nombre_receta, missing_ingredients) ==
    [receta |-> nombre_receta, miss_str |-> Head(missing_ingredients)]

\* f"Receta '{nombre_receta}': El ingrediente ({miss_str}) no existe en la
\* base de datos", kept as its two variable parts
RejectionMessage(nombre_receta, missing_ingredients) ==
    [receta |-> nombre_receta, miss_str |-> Join(missing_ingredients, <<",", " ">>)]

\* the loop's state: what is written so far, the counters, and whether a
\* statement raised
SaveStart(db) ==
    [db |-> db, created_count |-> 0, errors |-> <<>>, raised |-> FALSE, cause |-> ""]

\* a variant that stores a record with the ingredients that resolved even
\* when others are missing; C1 must tell it from SaveOneRecipe
SaveOneRecipePartial(st, receta_data, db_ingredients, fault) ==
    LET IsFound(item) == Lower(Strip(item.nombre)) \in DOMAIN db_ingredients
        valid_items_buffer == SelectSeq(receta_data.ingredientes, IsFound)
        id == st.db.seq.recipe + 1
    IN  [st EXCEPT
           !.db.recipes = @ \cup {[id |-> id,
                                   name |-> receta_data.nombre,
                                   instructions |-> receta_data.instrucciones]},
           !.db.seq.recipe = id,
           !.db.items = @ \cup
               {[recipe |-> id,
                 pos |-> k,
                 ingredient |-> db_ingredients[Lower(Strip(valid_items_buffer[k].nombre))].id,
                 quantity_raw |->
                     Quantize(valid_items_buffer[k].cantidad_kg, QuantityDecimalPlaces),
                 quantity_normalized |->
                     Quantize(NormalizeQuantity(valid_items_buffer[k].cantidad_kg),
                              QuantityDecimalPlaces)]
                : k \in 1..Len(valid_items_buffer)},
           !.created_count = @ + 1]

\* one pass of the loop over the records (lines 159-204); fault names the
\* statement the storage refuses in this run, if any
SaveOneRecipe(st, receta_data, db_ingredients, fault) ==
    LET ingredientes_input == receta_data.ingredientes
        IsMissing(item) == Lower(Strip(item.nombre)) \notin DOMAIN db_ingredients
        IsFound(item) == ~IsMissing(item)
        missing == SelectSeq(ingredientes_input, IsMissing)
        valid_items_buffer == SelectSeq(ingredientes_input, IsFound)
        id == st.db.seq.recipe + 1
        created == [st.db EXCEPT
                      !.recipes = @ \cup {[id |-> id,
                                           name |-> receta_data.nombre,
                                           instructions |-> receta_data.instrucciones]},
                      !.seq.recipe = id]
        items_objs ==
            {[recipe |-> id,
              pos |-> k,
              ingredient |-> db_ingredients[Lower(Strip(valid_items_buffer[k].nombre))].id,
              quantity_raw |->
                  Quantize(valid_items_buffer[k].cantidad_kg, QuantityDecimalPlaces),
              quantity_normalized |->
                  Quantize(NormalizeQuantity(valid_items_buffer[k].cantidad_kg),
                           QuantityDecimalPlaces)]
             : k \in 1..Len(valid_items_buffer)}
    IN  IF st.raised THEN st
        ELSE IF missing # <<>> THEN
            [st EXCEPT !.errors =
                 Append(@, RejectionMessage(receta_data.nombre,
                                            [k \in 1..Len(missing) |-> missing[k].nombre]))]
        ELSE IF fault = "create" THEN
            [st EXCEPT !.raised = TRUE, !.cause = "DatabaseError"]
        ELSE IF \E r \in st.db.recipes : r.name = receta_data.nombre THEN
            [st EXCEPT !.raised = TRUE, !.cause = "IntegrityError"]
        ELSE IF fault = "bulk_create" THEN
            [st EXCEPT !.db = created, !.raised = TRUE, !.cause = "DatabaseError"]
        ELSE [st EXCEPT !.db = [created EXCEPT !.items = @ \cup items_objs],
                        !.created_count = @ + 1]

RECURSIVE SaveRecipes(_, _, _, _)
SaveRecipes(st, data, db_ingredients, fault) ==
    IF data = <<>> THEN st
    ELSE SaveRecipes(SaveOneRecipe(st, Head(data), db_ingredients, fault),
                     Tail(data), db_ingredients, fault)

_save_cooking_recipe(db, data, fault) ==
    SaveRecipes(SaveStart(db), data, Snapshot(db), fault)

(***************************************************************************)
(* core/services.py: the three import runs.  Each returns                  *)
(* [db, raised, cause, parsed, response]: the store it leaves, whether it  *)
(* raised (the caller then sees "Fallo en el proceso ETL: <cause>"), the   *)
(* records its extractor produced and the summary it returned.             *)
(***************************************************************************)
NoResponse ==
    [status |-> "", type |-> "", processed_count |-> 0, errors |-> <<>>, total_input |-> 0]

Raised(db, cause, parsed) ==
    [db |-> db, raised |-> TRUE, cause |-> cause, parsed |-> parsed, response |-> NoResponse]

Returned(db, parsed, response) ==
    [db |-> db, raised |-> FALSE, cause |-> "", parsed |-> parsed, response |-> response]

\* a variant without the transaction: the writes made before an exception
\* stay; C3 must tell it from Atomic
NotAtomic(before, run) == run

\* with transaction.atomic(): an exception leaving the block rolls back
\* every write of the run
Atomic(before, run) == IF run.raised THEN [run EXCEPT !.db = before] ELSE run

\* a variant that reports the number of distinct ingredients written; C20
\* must tell it from IngredientRun
IngredientRunCountsDistinct(db, raw, type, fault) ==
    LET distinct == Cardinality({Lower(Strip(raw.productos[i].nombre)) :
                                    i \in 1..Len(raw.productos)})
    IN  IF ~raw.ok THEN Raised(db, raw.error, <<>>)
        ELSE IF fault = "bulk_create" THEN Raised(db, "DatabaseError", raw.productos)
        ELSE Returned(_save_base_ingredients(db, raw.productos),
                      raw.productos,
                      [status |-> IF distinct > 0 THEN "success" ELSE "failed",
                       type |-> type,
                       processed_count |-> distinct,
                       total_input |-> Len(raw.productos)])

\* the body both ingredient imports share (lines 33-41 and 63-71)
IngredientRun(db, raw, type, fault) ==
    IF ~raw.ok THEN Raised(db, raw.error, <<>>)
    ELSE IF fault = "bulk_create" THEN Raised(db, "DatabaseError", raw.productos)
    ELSE Returned(_save_base_ingredients(db, raw.productos),
                  raw.productos,
                  [status |-> IF Len(raw.productos) > 0 THEN "success" ELSE "failed",
                   type |-> type,
                   processed_count |-> Len(raw.productos),
                   total_input |-> Len(raw.productos)])

import_meats(db, file_obj, fault) ==
    Atomic(db, IngredientRun(db, ParsedExcel[file_obj], "carnes", fault))

import_vegetables(db, file_obj, fault) ==
    Atomic(db, IngredientRun(db, ParsedPdf[file_obj], "verduras", fault))

\* the body of import_recipes after the delete (lines 95-103), on the
\* store deleted that the delete left; a file is [decodable, lines]
RecipeSave(deleted, file_obj, fault) ==
    LET raw_recetas == ParsedMd[file_obj]
        saved == _save_cooking_recipe(deleted, raw_recetas.recetas, fault)
    IN  IF ~file_obj.decodable THEN Raised(deleted, "UnicodeDecodeError", <<>>)
        ELSE IF ~raw_recetas.ok THEN Raised(deleted, "KeyError", <<>>)
        ELSE IF saved.raised THEN Raised(saved.db, saved.cause, raw_recetas.recetas)
        ELSE Returned(saved.db,
                      raw_recetas.recetas,
                      [status |-> IF saved.created_count > 0 THEN "success" ELSE "failed",
                       type |-> "recetas",
                       processed_count |-> saved.created_count,
                       errors |-> saved.errors,
                       total_input |-> Len(raw_recetas.recetas)])

\* the body of import_recipes (lines 94-103)
RecipeRun(db, file_obj, fault) == RecipeSave(DeleteAllRecipes(db), file_obj, fault)

import_recipes(db, file_obj, fault) == Atomic(db, RecipeRun(db, file_obj, fault))

(***************************************************************************)
(* api/services.py: the cost calculation.                                  *)
(***************************************************************************)
WindowDays == 30

IsLeap(y) == (y % 4 = 0 /\ y % 100 # 0) \/ y % 400 = 0

DaysInMonth(y, m) ==
    IF m = 2 THEN (IF IsLeap(y) THEN 29 ELSE 28)
    ELSE IF m \in {4, 6, 9, 11} THEN 30
    ELSE 31

RECURSIVE DaysBeforeMonth(_, _)
DaysBeforeMonth(y, m) ==
    IF m = 1 THEN 0 ELSE DaysBeforeMonth(y, m - 1) + DaysInMonth(y, m - 1)

\* date.toordinal()
ToOrdinal(date) ==
    LET y == date.y - 1
    IN  365 * y + (y \div 4) - (y \div 100) + (y \div 400)
            + DaysBeforeMonth(date.y, date.m) + date.d

NoDate == [ok |-> FALSE, y |-> 0, m |-> 0, d |-> 0]

\* datetime.strptime(date_str, "%Y-%m-%d").date(); ok = FALSE for ValueError
Strptime(date_str) ==
    LET i1 == IndexOf(date_str, "-")
        rest == SubSeq(date_str, i1 + 1, Len(date_str))
        i2 == IndexOf(rest, "-")
        ys == SubSeq(date_str, 1, i1 - 1)
        ms == SubSeq(rest, 1, i2 - 1)
        ds == SubSeq(rest, i2 + 1, Len(rest))
        shaped ==
            /\ i1 > 0 /\ i2 > 0
            /\ Len(ys) = 4 /\ IsDigit(ys)
            /\ Len(ms) \in {1, 2} /\ IsDigit(ms)
            /\ Len(ds) \in {1, 2} /\ IsDigit(ds)
        y == DigitsValue(ys)
        m == DigitsValue(ms)
        d == DigitsValue(ds)
    IN  IF shaped /\ y >= 1 /\ m \in 1..12 /\ d >= 1 /\ d <= DaysInMonth(y, m)
        THEN [ok |-> TRUE, y |-> y, m |-> m, d |-> d]
        ELSE NoDate

\* a variant whose lower limit is exclusive; C10 must tell it from
\* OutOfWindow
OutOfWindowStrict(target_date, today) ==
    \/ ToOrdinal(target_date) > ToOrdinal(today)
    \/ ToOrdinal(target_date) <= ToOrdinal(today) - WindowDays

\* target_date > today or target_date < today - timedelta(days=30)
OutOfWindow(target_date, today) ==
    \/ ToOrdinal(target_date) > ToOrdinal(today)
    \/ ToOrdinal(target_date) < ToOrdinal(today) - WindowDays

\* item.quantity_normalized * item.ingredient.price_per_kg, 0 for an item
\* whose ingredient is None; a count of 10^-(3+2)
ItemCost(db, item) ==
    IF item.ingredient = NULL THEN 0
    ELSE item.quantity_normalized
            * (CHOOSE i \in db.ingredients : i.id = item.ingredient).price_per_kg

RECURSIVE SumCosts(_, _)
SumCosts(db, its) ==
    IF its = {} THEN 0
    ELSE LET it == CHOOSE x \in its : TRUE
         IN  ItemCost(db, it) + SumCosts(db, its \ {it})

\* a variant that adds up the items of every recipe; C9 must tell it from
\* TotalArs
TotalArsAllRecipes(db, recipe) == SumCosts(db, db.items)

\* the loop over recipe.items.all() (lines 50-57)
TotalArs(db, recipe) == SumCosts(db, {it \in db.items : it.recipe = recipe.id})

NoRate == [n |-> 0, d |-> 0]
ZeroUsd == [num |-> 0, den |-> 1]

\* a variant that lets the exception of the fetch through as it is; C12
\* must tell it from _get_usd_rate
GetUsdRateUnwrapped(date_obj, rate_response) ==
    IF rate_response.kind = "ok"
    THEN [ok |-> TRUE, rate |-> rate_response.rate, exc |-> "",
          date |-> NoDate, cause |-> "", calls |-> 1]
    ELSE [ok |-> FALSE, rate |-> NoRate, exc |-> rate_response.kind,
          date |-> NoDate, cause |-> rate_response.kind, calls |-> 1]

\* _get_usd_rate: one requests.get; the answer of the rate source is
\* [kind, rate], kind being "ok" or the exception that raise_for_status,
\* json(), the subscripts or the request raise; every exception becomes the
\* ValueError of line 95, whose message holds the date and str(e)
_get_usd_rate(date_obj, rate_response) ==
    IF rate_response.kind = "ok"
    THEN [ok |-> TRUE, rate |-> rate_response.rate, exc |-> "",
          date |-> NoDate, cause |-> "", calls |-> 1]
    ELSE [ok |-> FALSE, rate |-> NoRate, exc |-> "ValueError",
          date |-> date_obj, cause |-> rate_response.kind, calls |-> 1]

NoCost ==
    [recipe_name |-> <<>>, total_ars |-> 0,
     total_usd |-> ZeroUsd, exchange_rate |-> NoRate]

RecipeMessage == "La receta solicitada no existe."
FormatMessage == "Formato de fecha invalido. Use YYYY-MM-DD."
WindowMessage == "La fecha debe estar dentro de los ultimos 30 dias."
RateMessage == "No se pudo obtener la cotizacion del dolar"

\* a ValueError raised by a check, before any call of the rate source
CostError(message) ==
    [raised |-> TRUE, exc |-> "ValueError", error |-> message,
     error_date |-> NoDate, error_cause |-> "",
     called_rate |-> FALSE, rate_calls |-> 0, result |-> NoCost]

\* a variant that reads the date before it looks the recipe up; C11 must
\* tell it from FirstFailedCheck
FirstFailedCheckDateFirst(found, target_date, today) ==
    IF ~target_date.ok THEN FormatMessage
    ELSE IF OutOfWindow(target_date, today) THEN WindowMessage
    ELSE IF found = {} THEN RecipeMessage
    ELSE ""

\* the checks of lines 32-48 in their order: the message of the first one
\* that fails, "" when all pass
FirstFailedCheck(found, target_date, today) ==
    IF found = {} THEN RecipeMessage
    ELSE IF ~target_date.ok THEN FormatMessage
    ELSE IF OutOfWindow(target_date, today) THEN WindowMessage
    ELSE ""

\* a variant that divides by whatever rate it got; C13 must tell it from
\* TotalUsd
TotalUsdAlwaysDivides(total_ars, rate) ==
    [num |-> total_ars * Pow10(rate.d),
     den |-> Pow10(PriceDecimalPlaces + QuantityDecimalPlaces) * rate.n]

\* total_ars / usd_rate if usd_rate else 0 (line 63), as the exact quotient
\* num/den: total_ars is a count of 10^-5 and the rate is n / 10^d
TotalUsd(total_ars, rate) ==
    IF rate.n # 0
    THEN [num |-> total_ars * Pow10(rate.d),
          den |-> Pow10(PriceDecimalPlaces + QuantityDecimalPlaces) * rate.n]
    ELSE ZeroUsd

\* lines 50-70, for the recipe found and the date that passed the checks
CostOf(db, recipe, total_ars, usd_rate) ==
    IF ~usd_rate.ok
    THEN [raised |-> TRUE, exc |-> usd_rate.exc, error |-> RateMessage,
          error_date |-> usd_rate.date, error_cause |-> usd_rate.cause,
          called_rate |-> TRUE, rate_calls |-> usd_rate.calls, result |-> NoCost]
    ELSE [raised |-> FALSE, exc |-> "", error |-> "",
          error_date |-> NoDate, error_cause |-> "",
          called_rate |-> TRUE, rate_calls |-> usd_rate.calls,
          result |->
              [recipe_name |-> recipe.name,
               total_ars |-> total_ars,
               total_usd |-> TotalUsd(total_ars, usd_rate.rate),
               exchange_rate |-> usd_rate.rate]]

\* the checks, then the cost
CostChecked(db, found, target_date, failed, rate_response) ==
    IF failed # "" THEN CostError(failed)
    ELSE CostOf(db, CHOOSE r \in found : TRUE,
                TotalArs(db, CHOOSE r \in found : TRUE),
                _get_usd_rate(target_date, rate_response))

\* the recipe looked up and the date read
CostParsed(db, found, target_date, today, rate_response) ==
    CostChecked(db, found, target_date,
                FirstFailedCheck(found, target_date, today), rate_response)

\* calculate_recipe_cost: [raised, exc, error, error_date, error_cause,
\* called_rate, rate_calls, result]; today is timezone.now().date()
calculate_recipe_cost(db, recipe_id, date_str, today, rate_response) ==
    CostParsed(db, {r \in db.recipes : r.id = recipe_id}, Strptime(date_str),
               today, rate_response)

(***************************************************************************)
(* api/views.py: the cost endpoint.                                        *)
(***************************************************************************)
MissingParameters == "Faltan parametros (recipe_id, date)"

\* the try of lines 54-61: 200 with the result, 400 for a ValueError, 500
\* for any other exception
HttpStatus(r) ==
    IF ~r.raised THEN 200
    ELSE IF r.exc = "ValueError" THEN 400
    ELSE 500

\* the answer [status, r] to the service's r
PriceResponse(r) == [status |-> HttpStatus(r), r |-> r]

\* CalculatePriceView.post: a falsy parameter is answered 400 without a
\* call of the service
CalculatePriceView_post(db, recipe_id, date_str, today, rate_response) ==
    IF recipe_id = 0 \/ date_str = <<>>
    THEN [status |-> 400, r |-> [CostError(MissingParameters) EXCEPT !.exc = ""]]
    ELSE PriceResponse(calculate_recipe_cost(db, recipe_id, date_str, today,
                                             rate_response))

(***************************************************************************)
(* api/serializers.py and api/views.py: the upload endpoints.  An upload   *)
(* is the name of the file and its content.                                *)
(***************************************************************************)
\* the place of the last c in s, 0 when there is none
LastIndexOf(s, c) ==
    IF \E i \in 1..Len(s) : s[i] = c
    THEN CHOOSE i \in 1..Len(s) : s[i] = c /\ \A j \in (i + 1)..Len(s) : s[j] # c
    ELSE 0

\* os.path.splitext(name)[1].lower() for a name without directories: from
\* the last dot on, unless the name has no dot after its leading dots
SplitExt(name) ==
    LET dot == LastIndexOf(name, ".")
    IN  IF dot > 1 /\ \E j \in 1..(dot - 1) : name[j] # "."
        THEN Lower(SubSeq(name, dot, Len(name)))
        ELSE <<>>

SupportedExtensions ==
    { <<".", "p", "d", "f">>, <<".", "x", "l", "s">>,
      <<".", "x", "l", "s", "x">>, <<".", "m", "d">> }

\* FileUploadSerializer.validate_file: is_valid()
validate_file(name) == SplitExt(name) \in SupportedExtensions

\* BaseUploadView.process_upload: [db, status, invoked, run]; run is what
\* the service method does on the store db when it is called
process_upload(db, name, run) ==
    IF ~validate_file(name)
    THEN [db |-> db, status |-> 400, invoked |-> FALSE, run |-> Raised(db, "", <<>>)]
    ELSE [db |-> run.db, status |-> IF run.raised THEN 500 ELSE 200,
          invoked |-> TRUE, run |-> run]

(***************************************************************************)
(* The state machine.  last is the answer to the last request: the         *)
(* operation, whether it raised and with what, the records its extractor   *)
(* produced and the summary or cost it returned.                           *)
(***************************************************************************)
NoRequest ==
    [recipe_id |-> 0, date_str |-> <<>>, today |-> [y |-> 0, m |-> 0, d |-> 0],
     rate |-> [kind |-> "", rate |-> NoRate]]
NoFile == [readable |-> FALSE, decodable |-> FALSE]

\* the workers that serve import-recipes requests side by side
Workers == {"w1", "w2"}

\* a worker's run of import_recipes: where it stands in the body (idle,
\* begun, deleted, saved, done), the file it was given, the recipe ids its
\* delete statement removed and the rows its inserts wrote, both pending
\* until the transaction commits, whether another run was under way at any
\* moment of this one, and how it ended
NoWrites == [recipes |-> {}, items |-> {}]
NoRun ==
    [pc |-> "idle", file |-> UndecodableFile, deleted |-> {}, written |-> NoWrites,
     overlapped |-> FALSE, raised |-> FALSE, cause |-> "", response |-> NoResponse]

\* no request answered yet
NoLast ==
    [op |-> "none", request |-> NoRequest, file |-> NoFile,
     name |-> <<>>, invoked |-> FALSE, status |-> 0, raised |-> FALSE, exc |-> "", cause |-> "",
     error_date |-> NoDate, error_cause |-> "",
     parsed |-> <<>>, response |-> NoResponse,
     called_rate |-> FALSE, rate_calls |-> 0, cost |-> NoCost]

Init ==
    /\ ingredients = {}
    /\ recipes = {}
    /\ items = {}
    /\ seq = [ingredient |-> 0, recipe |-> 0]
    /\ last = NoLast
    /\ runs = [w \in Workers |-> NoRun]

\* the store becomes run.db and last the run's answer
Commit(op, run) ==
    /\ ingredients' = run.db.ingredients
    /\ recipes' = run.db.recipes
    /\ items' = run.db.items
    /\ seq' = run.db.seq
    /\ last' = [NoLast EXCEPT !.op = op,
                              !.raised = run.raised, !.cause = run.cause,
                              !.parsed = run.parsed, !.response = run.response]
    /\ UNCHANGED runs

ImportMeats(file_obj, fault) ==
    Commit("import_meats", import_meats(DB, file_obj, fault))

ImportVegetables(file_obj, fault) ==
    Commit("import_vegetables", import_vegetables(DB, file_obj, fault))

ImportRecipes(file_obj, fault) ==
    LET run == import_recipes(DB, file_obj, fault)
    IN  /\ run.db.seq.recipe <= MaxRecipeId
        /\ Commit("import_recipes", run)

\* last after the cost calculation answered r
CostAnswer(op, recipe_id, date_str, today, rate_response, r) ==
    [NoLast EXCEPT !.op = op,
                   !.request = [recipe_id |-> recipe_id, date_str |-> date_str,
                                today |-> today, rate |-> rate_response],
                   !.raised = r.raised, !.exc = r.exc, !.cause = r.error,
                   !.error_date = r.error_date, !.error_cause = r.error_cause,
                   !.called_rate = r.called_rate, !.rate_calls = r.rate_calls,
                   !.cost = r.result]

\* last after the view answered v
PriceAnswer(recipe_id, date_str, today, rate_response, v) ==
    [CostAnswer("calculate_price", recipe_id, date_str, today, rate_response, v.r)
        EXCEPT !.status = v.status]

CalculateCost(recipe_id, date_str, today, rate_response) ==
    /\ last' = CostAnswer("calculate_recipe_cost", recipe_id, date_str, today,
                          rate_response,
                          calculate_recipe_cost(DB, recipe_id, date_str, today,
                                                rate_response))
    /\ UNCHANGED <<ingredients, recipes, items, seq, runs>>

\* a POST to calculate-price/ with the parameters recipe_id and date; 0 and
\* <<>> stand for a parameter that is absent or falsy
PostCalculatePrice(recipe_id, date_str, today, rate_response) ==
    /\ last' = PriceAnswer(recipe_id, date_str, today, rate_response,
                           CalculatePriceView_post(DB, recipe_id, date_str, today,
                                                   rate_response))
    /\ UNCHANGED <<ingredients, recipes, items, seq, runs>>

\* a POST of the file name with the content file_obj to an upload endpoint,
\* answered v
Uploaded(op, name, v) ==
    /\ ingredients' = v.db.ingredients
    /\ recipes' = v.db.recipes
    /\ items' = v.db.items
    /\ seq' = v.db.seq
    /\ last' = [NoLast EXCEPT !.op = op, !.name = name,
                              !.invoked = v.invoked, !.status = v.status,
                              !.raised = v.run.raised, !.cause = v.run.cause,
                              !.parsed = v.run.parsed, !.response = v.run.response]
    /\ UNCHANGED runs

\* RecetasUploadView.post
UploadRecipes(name, file_obj) ==
    /\ import_recipes(DB, file_obj, "none").db.seq.recipe <= MaxRecipeId
    /\ Uploaded("upload_recipes", name,
                process_upload(DB, name, import_recipes(DB, file_obj, "none")))

\* CarnesUploadView.post
UploadMeats(name, file_obj) ==
    Uploaded("upload_meats", name,
             process_upload(DB, name, import_meats(DB, file_obj, "none")))

\* VerdurasUploadView.post
UploadVegetables(name, file_obj) ==
    Uploaded("upload_vegetables", name,
             process_upload(DB, name, import_vegetables(DB, file_obj, "none")))

\* a call of an extractor of FileParser alone, on file_obj; r is what it
\* returned or raised
Extracted(op, file_obj, r, records, error) ==
    /\ last' = [NoLast EXCEPT !.op = op, !.file = file_obj,
                              !.raised = ~r.ok, !.cause = error,
                              !.parsed = records]
    /\ UNCHANGED <<ingredients, recipes, items, seq, runs>>

ParseExcel(file_buffer) ==
    Extracted("parse_excel", file_buffer, parse_excel(file_buffer),
              parse_excel(file_buffer).productos, parse_excel(file_buffer).error)

ParsePdf(file_buffer) ==
    Extracted("parse_pdf", file_buffer, parse_pdf(file_buffer),
              parse_pdf(file_buffer).productos, parse_pdf(file_buffer).error)

\* parse_md on the text of a document
ParseMd(file_obj) ==
    Extracted("parse_md", file_obj, parse_md(file_obj.lines),
              parse_md(file_obj.lines).recetas,
              IF parse_md(file_obj.lines).ok THEN "" ELSE "KeyError")

\* an Ingredient row deleted through the ORM, outside the pipeline
DeleteIngredient(id) ==
    LET db == DeleteIngredientRow(DB, id)
    IN  /\ \E i \in ingredients : i.id = id
        /\ ingredients' = db.ingredients
        /\ items' = db.items
        /\ last' = [last EXCEPT !.op = "delete_ingredient"]
        /\ UNCHANGED <<recipes, seq, runs>>

(***************************************************************************)
(* Two runs of import_recipes side by side, each a transaction of its own. *)
(* A run's statements are its steps; between them the other run may move.  *)
(* A statement reads the rows committed at that moment and the run's own   *)
(* pending writes; a run's writes reach the store when it commits and are  *)
(* dropped when it raises.  Primary keys come from a counter the runs      *)
(* share, which does not go back when a run is rolled back.                *)
(***************************************************************************)
Active(w) == runs[w].pc \in {"begun", "deleted", "saved"}

\* the records of the file of a run that has not reached its inserts yet
Pending(w) ==
    IF runs[w].pc \in {"begun", "deleted"} /\ runs[w].file \in DOMAIN ParsedMd
    THEN Len(ParsedMd[runs[w].file].recetas) ELSE 0

RECURSIVE PendingAll(_)
PendingAll(ws) ==
    IF ws = {} THEN 0
    ELSE LET w == CHOOSE x \in ws : TRUE IN Pending(w) + PendingAll(ws \ {w})

\* what a statement of run w reads: the committed rows without the ones
\* the run has deleted
TxnView(w) ==
    [ingredients |-> ingredients,
     recipes |-> {r \in recipes : r.id \notin runs[w].deleted},
     items |-> {it \in items : it.recipe \notin runs[w].deleted},
     seq |-> seq]

\* an insert of a name that another run has inserted and not yet committed
\* waits for that run to end
Waits(w, rows) ==
    \E o \in Workers \ {w} :
        /\ runs[o].pc = "saved"
        /\ \E r \in rows, x \in runs[o].written.recipes : r.name = x.name

\* with transaction.atomic(): worker w enters the block with file_obj
BeginImport(w, file_obj) ==
    /\ ~Active(w)
    /\ seq.recipe + PendingAll(Workers \ {w}) + Len(ParsedMd[file_obj].recetas)
          <= MaxRecipeId
    /\ runs' = [o \in Workers |->
                  IF o = w
                  THEN [NoRun EXCEPT !.pc = "begun", !.file = file_obj,
                                     !.overlapped = \E x \in Workers \ {w} : Active(x)]
                  ELSE IF Active(o) THEN [runs[o] EXCEPT !.overlapped = TRUE]
                  ELSE runs[o]]
    /\ UNCHANGED <<ingredients, recipes, items, seq, last>>

\* CookingRecipe.objects.all().delete() of run w: the rows it finds
DeleteStep(w) ==
    /\ runs[w].pc = "begun"
    /\ runs' = [runs EXCEPT ![w].pc = "deleted",
                            ![w].deleted =
                                {r.id : r \in recipes \ DeleteAllRecipes(DB).recipes}]
    /\ UNCHANGED <<ingredients, recipes, items, seq, last>>

\* run w after its parse and its inserts answered run: rolled back when it
\* raised, else holding the new rows until the commit
Saved(w, view, run) ==
    /\ ~Waits(w, run.db.recipes \ view.recipes)
    /\ seq' = run.db.seq
    /\ runs' = [runs EXCEPT ![w] =
                   IF run.raised
                   THEN [@ EXCEPT !.pc = "done", !.deleted = {},
                                  !.raised = TRUE, !.cause = run.cause]
                   ELSE [@ EXCEPT !.pc = "saved",
                                  !.written = [recipes |-> run.db.recipes \ view.recipes,
                                               items |-> run.db.items \ view.items],
                                  !.response = run.response]]
    /\ UNCHANGED <<ingredients, recipes, items, last>>

\* the parse and _save_cooking_recipe of run w
SaveStep(w) ==
    /\ runs[w].pc = "deleted"
    /\ Saved(w, TxnView(w), RecipeSave(TxnView(w), runs[w].file, "none"))

\* run w leaves the atomic block: its delete and its inserts reach the store
CommitStep(w) ==
    /\ runs[w].pc = "saved"
    /\ recipes' = {r \in recipes : r.id \notin runs[w].deleted}
                    \cup runs[w].written.recipes
    /\ items' = {it \in items : it.recipe \notin runs[w].deleted}
                  \cup runs[w].written.items
    /\ runs' = [runs EXCEPT ![w].pc = "done", ![w].deleted = {}]
    /\ UNCHANGED <<ingredients, seq, last>>

\* the recipe imports in full, on a catalog fed by a few price files; every
\* import also fails, in its extractor or in the storage
Next ==
    \/ \E f \in MdFiles : ImportRecipes(f, "none")
    \/ \E f \in MdFilesFaulty, fault \in RecipeFaults : ImportRecipes(f, fault)
    \/ \E f \in ExcelFilesFaulty, fault \in IngredientFaults :
          ImportMeats(f, fault)
    \/ \E f \in PdfFilesFaulty, fault \in IngredientFaults :
          ImportVegetables(f, fault)

Spec == Init /\ [][Next]_vars

\* the price imports in full, with a few recipe files and cost requests
NextPrices ==
    \/ \E f \in ExcelFiles, fault \in IngredientFaults : ImportMeats(f, fault)
    \/ \E f \in PdfFiles, fault \in IngredientFaults : ImportVegetables(f, fault)
    \/ \E f \in MdFilesFew : ImportRecipes(f, "none")
    \/ \E id \in 1..MaxRecipeId :
          CalculateCost(id, DateToday, March1, Rate1000)

SpecPrices == Init /\ [][NextPrices]_vars

\* the cost requests in full, on stores fed by a few files, where rows of
\* Ingredient may also be deleted outside the pipeline
NextCost ==
    \/ \E id \in 1..MaxRecipeId, ds \in DateStrings, t \in Todays, r \in RateResponsesFew :
          CalculateCost(id, ds, t, r)
    \/ \E id \in 1..MaxRecipeId, r \in RateResponses :
          CalculateCost(id, DateToday, March1, r)
    \/ \E id \in 0..1, ds \in {NoText, DateToday}, r \in RateResponses :
          PostCalculatePrice(id, ds, March1, r)
    \/ \E id \in 1..2 : DeleteIngredient(id)
    \/ \E f \in MdFilesFew : ImportRecipes(f, "none")
    \/ \E f \in ExcelFilesFew : ImportMeats(f, "none")
    \/ ImportVegetables(PdfFileTomatePapa, "none")

SpecCost == Init /\ [][NextCost]_vars

\* the upload endpoints, each with every file name, on a few contents
NextUpload ==
    \/ \E n \in FileNames, f \in MdFilesFew \cup {UndecodableFile} : UploadRecipes(n, f)
    \/ \E n \in FileNames, f \in ExcelFilesFaulty : UploadMeats(n, f)
    \/ \E n \in FileNames, f \in PdfFilesFew : UploadVegetables(n, f)

SpecUpload == Init /\ [][NextUpload]_vars

\* the extractors alone, each on every document of its kind
NextParsers ==
    \/ \E f \in ExcelSheets : ParseExcel(f)
    \/ \E f \in PdfDocuments : ParsePdf(f)
    \/ \E f \in MdDocuments : ParseMd(f)

SpecParsers == Init /\ [][NextParsers]_vars

\* two workers importing recipes side by side, on a catalog fed by a price
\* file
NextWorkers ==
    \/ \E w \in Workers, f \in MdFilesSideBySide : BeginImport(w, f)
    \/ \E w \in Workers : DeleteStep(w)
    \/ \E w \in Workers : SaveStep(w)
    \/ \E w \in Workers : CommitStep(w)
    \/ \E f \in ExcelFilesFew : ImportMeats(f, "none")

SpecWorkers == Init /\ [][NextWorkers]_vars

\* the pipeline alone: ingredient imports, recipe imports and cost
\* calculations, each also failing
NextPipeline ==
    \/ \E f \in ExcelFilesFaulty, fault \in IngredientFaults : ImportMeats(f, fault)
    \/ \E f \in PdfFilesFaulty, fault \in IngredientFaults : ImportVegetables(f, fault)
    \/ \E f \in MdFilesPipeline : ImportRecipes(f, "none")
    \/ \E f \in MdFilesFew, fault \in RecipeFaults : ImportRecipes(f, fault)
    \/ \E id \in 1..MaxRecipeId, ds \in DateStringsPipeline, r \in RateResponsesPipeline :
          CalculateCost(id, ds, March1, r)

SpecPipeline == Init /\ [][NextPipeline]_vars

(***************************************************************************)
(* Properties.  What the claims read of a run: the store before and after  *)
(* it and the answer in last.                                              *)
(***************************************************************************)
ImportOps == {"import_meats", "import_vegetables", "import_recipes"}
IngredientImportOps == {"import_meats", "import_vegetables"}
CatalogReaderOps == {"import_recipes", "calculate_recipe_cost"}
PipelineOps == ImportOps \cup CatalogReaderOps
Statuses == {"success", "failed"}

\* a name as the stages compare it: trimmed and lowercased
NormalizedName(nombre) == Lower(Strip(nombre))

\* the keys of the name snapshot a recipe import takes of a catalog
SnapshotKeys(ings) == {Lower(i.name) : i \in ings}

\* every ingredient name of the record is a key of the snapshot
Resolves(ings, rec) ==
    \A k \in 1..Len(rec.ingredientes) :
        NormalizedName(rec.ingredientes[k].nombre) \in SnapshotKeys(ings)

AcceptedOf(ings, parsed) ==
    LET Test(rec) == Resolves(ings, rec) IN SelectSeq(parsed, Test)

RejectedOf(ings, parsed) ==
    LET Test(rec) == ~Resolves(ings, rec) IN SelectSeq(parsed, Test)

\* the original names of the record's ingredients that are no key of the
\* snapshot, in listing order
MissingNames(ings, rec) ==
    LET Test(item) == NormalizedName(item.nombre) \notin SnapshotKeys(ings)
        miss == SelectSeq(rec.ingredientes, Test)
    IN  [k \in 1..Len(miss) |-> miss[k].nombre]

\* the import of recipes that led to this state returned a summary
RecipeImportReturned == last.op = "import_recipes" /\ ~last.raised

\* the stored recipes are the accepted records, row for row: the k-th
\* accepted record is the k-th row written by the run, with one item for
\* each of its ingredients, and there is no other recipe and no other item
StoredAsAccepted(ings, parsed, db_recipes, db_items, db_seq) ==
    LET accepted == AcceptedOf(ings, parsed)
        first == db_seq.recipe - Len(accepted)
    IN  /\ Cardinality(db_recipes) = Len(accepted)
        /\ \A k \in 1..Len(accepted) :
              \E r \in db_recipes :
                  /\ r.id = first + k
                  /\ r.name = accepted[k].nombre
                  /\ r.instructions = accepted[k].instrucciones
                  /\ Cardinality({it \in db_items : it.recipe = r.id})
                        = Len(accepted[k].ingredientes)
        /\ \A it \in db_items :
              /\ \E r \in db_recipes : r.id = it.recipe
              /\ it.ingredient # NULL

\* C1: after an import of recipes that returns, a record's recipe is stored
\* if and only if every ingredient name of the record, trimmed and
\* lowercased, is a key of the snapshot of the catalog taken at the start of
\* the run (so a record without ingredients is stored, with no item); a
\* rejected record leaves no recipe row and no item row.
C1_StoredIffAllResolve ==
    [][(last'.op = "import_recipes" /\ ~last'.raised)
          => StoredAsAccepted(ingredients, last'.parsed, recipes', items', seq')]_vars

\* a run that stored a record without ingredients and rejected a record
\* some of whose ingredients resolved
C1_Witness ==
    /\ RecipeImportReturned
    /\ \E k \in 1..Len(last.parsed) :
          /\ last.parsed[k].ingredientes = <<>>
          /\ \E r \in recipes : r.name = last.parsed[k].nombre
    /\ \E k \in 1..Len(last.parsed) :
          /\ ~Resolves(ingredients, last.parsed[k])
          /\ \E j \in 1..Len(last.parsed[k].ingredientes) :
                NormalizedName(last.parsed[k].ingredientes[j].nombre)
                    \in SnapshotKeys(ingredients)

\* C2: an import of recipes that returns is a full replace: no recipe and
\* no item stored before the run is stored after it, and the recipes stored
\* after it are the rows the run wrote, one for each record it accepted
\* (none when it accepted none).
C2_FullReplace ==
    [][(last'.op = "import_recipes" /\ ~last'.raised)
          => /\ \A old \in recipes : \A r \in recipes' : r.id # old.id
             /\ \A old \in items : \A it \in items' : it.recipe # old.recipe
             /\ {r.id : r \in recipes'}
                   = (seq.recipe + 1)..(seq.recipe + last'.response.processed_count)
             /\ \A it \in items' : it.recipe > seq.recipe]_vars

\* a run that accepted nothing and left no recipe, after recipes had been
\* stored
C2_Witness ==
    /\ RecipeImportReturned
    /\ last.response.processed_count = 0
    /\ last.response.total_input > 0
    /\ seq.recipe > 0
    /\ recipes = {}
    /\ items = {}

\* C3: an import that fails, at whatever step, leaves the three tables as
\* they were before the run, and the caller sees one error, which carries
\* the cause.
C3_AllOrNothing ==
    [][(last'.op \in ImportOps /\ last'.raised)
          => /\ ingredients' = ingredients
             /\ recipes' = recipes
             /\ items' = items
             /\ last'.cause # ""
             /\ last'.response = NoResponse]_vars

\* an import of recipes that failed in the storage, after its delete, with
\* the old recipes still stored
C3_Witness ==
    /\ last.op = "import_recipes"
    /\ last.raised
    /\ last.cause = "DatabaseError"
    /\ recipes # {}
    /\ items # {}

\* C4: on an import of recipes that returns, processed_count is the number
\* of records whose ingredients all resolved, errors has one message for
\* each rejected record, in input order, naming the recipe and listing its
\* missing ingredients by their original names in listing order,
\* processed_count + length(errors) = total_input = the length of the parsed
\* list, and status is "success" iff processed_count > 0.
C4_SummaryCounts ==
    RecipeImportReturned =>
        LET accepted == AcceptedOf(ingredients, last.parsed)
            rejected == RejectedOf(ingredients, last.parsed)
            r == last.response
        IN  /\ r.processed_count = Len(accepted)
            /\ Len(r.errors) = Len(rejected)
            /\ \A k \in 1..Len(rejected) :
                  /\ r.errors[k].receta = rejected[k].nombre
                  /\ r.errors[k].miss_str
                        = Join(MissingNames(ingredients, rejected[k]), <<",", " ">>)
            /\ r.processed_count + Len(r.errors) = r.total_input
            /\ r.total_input = Len(last.parsed)
            /\ r.status \in Statuses
            /\ r.status = "success" <=> r.processed_count > 0

\* a run that accepted a record and rejected another that misses two
\* ingredients
C4_Witness ==
    /\ RecipeImportReturned
    /\ last.response.processed_count > 0
    /\ \E k \in 1..Len(last.parsed) :
          Len(MissingNames(ingredients, last.parsed[k])) >= 2

\* the normalized names of the records an ingredient import was given
InputNames(parsed) == {NormalizedName(parsed[k].nombre) : k \in 1..Len(parsed)}

\* the index of the last record of the list with this normalized name
LastRecordNamed(parsed, n) ==
    CHOOSE j \in 1..Len(parsed) :
        /\ NormalizedName(parsed[j].nombre) = n
        /\ \A o \in 1..Len(parsed) : NormalizedName(parsed[o].nombre) = n => o <= j

\* an amount of the catalog, a count of cents, equals the decimal fraction
SamePrice(price_per_kg, precio) ==
    price_per_kg * Pow10(precio.d) = precio.n * Pow10(PriceDecimalPlaces)

\* C5: after an ingredient import that returns, for every normalized name
\* of its list exactly one Ingredient has that name, and its price is the
\* price of the last record of the list with that name, also when the name
\* was stored before and when several records share it.
C5_UpsertLastWins ==
    (last.op \in IngredientImportOps /\ ~last.raised) =>
        \A n \in InputNames(last.parsed) :
            LET rows == {i \in ingredients : i.name = n}
            IN  /\ Cardinality(rows) = 1
                /\ \A i \in rows :
                      SamePrice(i.price_per_kg,
                                last.parsed[LastRecordNamed(last.parsed, n)].precio)

\* an import whose list holds two records of one normalized name with
\* different prices, into a catalog that has other names too
C5_Witness ==
    /\ last.op \in IngredientImportOps
    /\ ~last.raised
    /\ \E j, k \in 1..Len(last.parsed) :
          /\ j < k
          /\ NormalizedName(last.parsed[j].nombre) = NormalizedName(last.parsed[k].nombre)
          /\ last.parsed[j].precio # last.parsed[k].precio
    /\ \E i \in ingredients : i.name \notin InputNames(last.parsed)

\* C6: no operation of the pipeline removes an Ingredient; an ingredient
\* import leaves every Ingredient whose name is not in its input, every
\* recipe and every item as they were; an import of recipes and a cost
\* calculation leave the whole catalog as it was.
C6_CatalogFrame ==
    [][/\ last'.op \in PipelineOps
          => \A i \in ingredients :
                \E j \in ingredients' : j.id = i.id /\ j.name = i.name
       /\ last'.op \in IngredientImportOps
          => /\ recipes' = recipes
             /\ items' = items
             /\ \A i \in ingredients :
                   i.name \notin InputNames(last'.parsed) => i \in ingredients'
       /\ last'.op \in CatalogReaderOps
          => ingredients' = ingredients]_vars

\* an ingredient import that wrote, into a store with recipes and items and
\* with an Ingredient that its list does not name
C6_Witness ==
    /\ last.op \in IngredientImportOps
    /\ ~last.raised
    /\ last.parsed # <<>>
    /\ recipes # {}
    /\ items # {}
    /\ \E i \in ingredients : i.name \notin InputNames(last.parsed)

\* C7: in every state reached by imports of meat and vegetable prices,
\* every Ingredient has price_per_kg >= 0.
C7_PricesNonNegative == \A i \in ingredients : i.price_per_kg >= 0

\* norm, a count of grams, is the smallest multiple of 0.25 kg that is not
\* below the quantity q, a decimal fraction of a kg
SmallestStepNotBelow(norm, q) ==
    /\ norm % 250 = 0
    /\ norm * Pow10(q.d) >= q.n * Pow10(QuantityDecimalPlaces)
    /\ (norm - 250) * Pow10(q.d) < q.n * Pow10(QuantityDecimalPlaces)

\* the quantities 0.25, 0.26, 0.3 and 1.0 kg
Kg025 == [n |-> 25, d |-> 2]
Kg026 == [n |-> 26, d |-> 2]
Kg03 == [n |-> 3, d |-> 1]
Kg10 == [n |-> 10, d |-> 1]

\* C8: the normalized quantity stored for an ingredient of an accepted
\* record is the smallest multiple of 0.25 kg that is >= the raw quantity q
\* of the record (q >= 0), so q <= normalized < q + 0.25; 0.25 gives 0.25,
\* 0.26 gives 0.50, 0.3 gives 0.50 and 1.0 gives 1.00.  (The column
\* quantity_raw holds q with three decimals.)
C8_QuantityRoundsUp ==
    /\ RecipeImportReturned =>
          LET accepted == AcceptedOf(ingredients, last.parsed)
              first == seq.recipe - Len(accepted)
          IN  \A k \in 1..Len(accepted) :
                  \A j \in 1..Len(accepted[k].ingredientes) :
                      \E it \in items :
                          /\ it.recipe = first + k
                          /\ it.pos = j
                          /\ SmallestStepNotBelow(it.quantity_normalized,
                                                  accepted[k].ingredientes[j].cantidad_kg)
    /\ Quantize(NormalizeQuantity(Kg025), QuantityDecimalPlaces) = 250
    /\ Quantize(NormalizeQuantity(Kg026), QuantityDecimalPlaces) = 500
    /\ Quantize(NormalizeQuantity(Kg03), QuantityDecimalPlaces) = 500
    /\ Quantize(NormalizeQuantity(Kg10), QuantityDecimalPlaces) = 1000

\* a run that stored an aligned quantity, quantities between two steps and
\* a quantity below one gram
C8_Witness ==
    /\ RecipeImportReturned
    /\ \E it \in items : it.quantity_raw = 250 /\ it.quantity_normalized = 250
    /\ \E it \in items : it.quantity_raw = 260 /\ it.quantity_normalized = 500
    /\ \E it \in items : it.quantity_raw = 300 /\ it.quantity_normalized = 500
    /\ \E it \in items : it.quantity_raw = 0 /\ it.quantity_normalized = 250

\* the cost request that led to this state
CostReturned == last.op = "calculate_recipe_cost" /\ ~last.raised

\* quantity_normalized x price_per_kg added over the items in its
RECURSIVE SumOfProducts(_)
SumOfProducts(its) ==
    IF its = {} THEN 0
    ELSE LET it == CHOOSE x \in its : TRUE
             ing == CHOOSE i \in ingredients : i.id = it.ingredient
         IN  it.quantity_normalized * ing.price_per_kg + SumOfProducts(its \ {it})

\* C9: the local-currency total a cost calculation returns is the sum of
\* quantity_normalized x price_per_kg over the items of the requested recipe
\* whose ingredient reference is not null; an item with a null reference
\* adds nothing and does not make the calculation fail, and the items of
\* other recipes are not counted.
C9_TotalIsSumOverResolvable ==
    /\ CostReturned =>
          last.cost.total_ars
              = SumOfProducts({it \in items : /\ it.recipe = last.request.recipe_id
                                              /\ it.ingredient # NULL})
    /\ (last.op = "calculate_recipe_cost" /\ last.raised) =>
          \/ last.called_rate
          \/ last.request.recipe_id \notin {r.id : r \in recipes}
          \/ ~Strptime(last.request.date_str).ok
          \/ OutOfWindow(Strptime(last.request.date_str), last.request.today)

\* a calculation that returned a total above 0 for a recipe with an item
\* whose reference is null, while another recipe has items too
C9_Witness ==
    /\ CostReturned
    /\ last.cost.total_ars > 0
    /\ \E it \in items : it.recipe = last.request.recipe_id /\ it.ingredient = NULL
    /\ \E it \in items : it.recipe # last.request.recipe_id /\ it.ingredient # NULL

\* the request was for a stored recipe with a well-formed date
DateChecked ==
    /\ last.op = "calculate_recipe_cost"
    /\ last.request.recipe_id \in {r.id : r \in recipes}
    /\ Strptime(last.request.date_str).ok

\* today, today - 30; today - 31, today + 1
InWindowOnMarch1 == {DateToday, DateMinus30}
OutOfWindowOnMarch1 == {DateMinus31, DateTomorrow}

\* C10: for a stored recipe and a well-formed date d, the calculation
\* passes the date check iff today - 30 days <= d <= today; with today
\* 2024-03-01, the dates 2024-03-01 and 2024-01-31 pass and 2024-01-30 and
\* 2024-03-02 are rejected as invalid input.
C10_DateWindow ==
    DateChecked =>
        LET d == ToOrdinal(Strptime(last.request.date_str))
            today == ToOrdinal(last.request.today)
            rejected == last.raised /\ last.cause = WindowMessage
        IN  /\ ~rejected <=> (today - 30 <= d /\ d <= today)
            /\ last.request.today = March1 =>
                  /\ last.request.date_str \in InWindowOnMarch1 => ~rejected
                  /\ last.request.date_str \in OutOfWindowOnMarch1 => rejected

\* a request for the day 30 days before today that returned a cost
C10_Witness ==
    /\ DateChecked
    /\ last.request.today = March1
    /\ last.request.date_str = DateMinus30
    /\ ~last.raised

\* the identifiers of the stored recipes
StoredIds == {r.id : r \in recipes}

\* the date strings of the model that are no YYYY-MM-DD date
MalformedDates == {DateNoSuchDay, DateDayFirst}

CostRequested == last.op = "calculate_recipe_cost"

\* the requested date is a date inside the window
RequestInWindow ==
    /\ last.request.date_str \notin MalformedDates
    /\ ToOrdinal(Strptime(last.request.date_str)) <= ToOrdinal(last.request.today)
    /\ ToOrdinal(Strptime(last.request.date_str))
           >= ToOrdinal(last.request.today) - 30

\* C11: the cost calculation validates in a fixed order: the recipe exists
\* (else the not-found error), the date parses as YYYY-MM-DD (else invalid
\* input), the date is in the window (else invalid input); the rate source
\* is called only when all three checks passed, and then once, so that a
\* request with an unknown recipe and a bad date reports the recipe error
\* and a validation failure makes no outbound call.
C11_ValidationOrder ==
    CostRequested =>
        LET known == last.request.recipe_id \in StoredIds
            wellformed == last.request.date_str \notin MalformedDates
        IN  /\ ~known => last.raised /\ last.cause = RecipeMessage
            /\ (known /\ ~wellformed) => last.raised /\ last.cause = FormatMessage
            /\ (known /\ wellformed /\ ~RequestInWindow) =>
                  last.raised /\ last.cause = WindowMessage
            /\ last.rate_calls = IF known /\ RequestInWindow THEN 1 ELSE 0
            /\ last.called_rate <=> last.rate_calls > 0

\* a request with an unknown recipe and a malformed date that got the
\* recipe error and made no call
C11_Witness ==
    /\ CostRequested
    /\ last.request.recipe_id \notin StoredIds
    /\ last.request.date_str \in MalformedDates
    /\ last.cause = RecipeMessage
    /\ last.rate_calls = 0

\* a cost calculation, asked of the service or through the endpoint
CostAsked == last.op \in {"calculate_recipe_cost", "calculate_price"}

\* the calculation passed its three checks and the rate source failed
RateFetchFailed ==
    /\ CostAsked
    /\ last.request.recipe_id \in StoredIds
    /\ last.request.date_str # <<>>
    /\ RequestInWindow
    /\ last.request.rate.kind # "ok"

\* C12: whenever the rate fetch fails (non-success status, unparseable
\* body, missing usd.ars field, timeout), the cost calculation fails with
\* the external-service error, which carries the requested date and the
\* cause, and returns no cost; the source was asked once (no retry, no
\* cached fallback) and the cost endpoint answers 400, never 500.
C12_RateFailure ==
    RateFetchFailed =>
        /\ last.raised
        /\ last.exc = "ValueError"
        /\ last.cause = RateMessage
        /\ last.error_date.ok
        /\ ToOrdinal(last.error_date) = ToOrdinal(Strptime(last.request.date_str))
        /\ last.error_cause = last.request.rate.kind
        /\ last.cost = NoCost
        /\ last.rate_calls = 1
        /\ last.op = "calculate_price" => last.status = 400

\* the endpoint answered 400 to a request for a stored recipe and an
\* in-window date whose rate fetch found no usd.ars field
C12_Witness ==
    /\ RateFetchFailed
    /\ last.op = "calculate_price"
    /\ last.request.rate = RateNoField
    /\ last.status = 400
    /\ last.error_cause = "KeyError"

\* a cost calculation that returned
CostAnswered == CostAsked /\ ~last.raised

RECURSIVE Gcd(_, _)
Gcd(a, b) == IF b = 0 THEN a ELSE Gcd(b, a % b)

\* the foreign total in lowest terms
ForeignNum == last.cost.total_usd.num \div Gcd(last.cost.total_usd.num, last.cost.total_usd.den)
ForeignDen == last.cost.total_usd.den \div Gcd(last.cost.total_usd.num, last.cost.total_usd.den)

\* the recipe asked for has one item, 1.0 kg of carne at 1000.00 a kg
OneKgOfCarneAt1000 ==
    \E it \in items, i \in ingredients :
        /\ {x \in items : x.recipe = last.request.recipe_id} = {it}
        /\ it.ingredient = i.id
        /\ it.quantity_normalized = 1000
        /\ i.name = <<"c", "a", "r", "n", "e">>
        /\ i.price_per_kg = 100000

\* C13: for every local total and every rate the rate source returned,
\* total_foreign = total_local / rate when the rate is not zero, and
\* total_foreign = 0 in a successful result when the rate is zero; the
\* exchange_rate returned is the fetched rate.  With carne at 1000.00 a kg,
\* one item of 1.0 kg and the rate 1000.0 the result is total_local 1000.0,
\* total_foreign 1.0, exchange_rate 1000.0.
C13_ForeignTotal ==
    /\ CostAnswered =>
          LET rate == last.request.rate.rate
          IN  /\ last.cost.exchange_rate = rate
              /\ rate.n # 0 =>
                    /\ last.cost.total_usd.den # 0
                    /\ ForeignNum * rate.n * Pow10(5 - rate.d)
                           = last.cost.total_ars * ForeignDen
              /\ rate.n = 0 => last.cost.total_usd.num = 0 /\ last.cost.total_usd.den # 0
    /\ (CostAnswered /\ OneKgOfCarneAt1000 /\ last.request.rate = Rate1000) =>
          /\ last.cost.total_ars = 1000 * Pow10(PriceDecimalPlaces + QuantityDecimalPlaces)
          /\ ForeignNum = 1 /\ ForeignDen = 1
          /\ last.cost.exchange_rate = [n |-> 10000, d |-> 1]
    /\ (CostAsked /\ last.request.rate = RateZero
            /\ last.request.recipe_id \in StoredIds
            /\ last.request.date_str # <<>> /\ RequestInWindow) => ~last.raised

\* the example's calculation: 1.0 kg of carne at 1000.00, rate 1000.0
C13_Witness ==
    /\ CostAnswered /\ OneKgOfCarneAt1000 /\ last.request.rate = Rate1000
    /\ last.cost.total_ars > 0

\* the text of a non-empty cell: trimmed, and with something left
CellText(cell) == IF cell.isna THEN <<>> ELSE Strip(cell.text)

\* the number a cell holds: its first run of digits and separators, every
\* '.' deleted and ',' read as the decimal point
CellNumber(cell) ==
    ParseFloat(ReplaceChar(RemoveChar(FirstNumRun(CellText(cell)), "."), ",", "."))

\* the conditions of C14 on a cell and its left neighbour
CellIsPrice(cell) ==
    /\ CellText(cell) # <<>>
    /\ \E i \in 1..Len(CellText(cell)) : CellText(cell)[i] \in Digits \cup {"$"}
    /\ CellNumber(cell).ok

CellIsLabel(cell) ==
    /\ CellText(cell) # <<>>
    /\ Lower(CellText(cell)) \notin ENCABEZADOS
    /\ \E i \in 1..Len(CellText(cell)) : CellText(cell)[i] \notin Digits \cup {".", ","}

\* the records C14 expects of a grid, scanned row by row from (r, c)
RECURSIVE ExpectedFrom(_, _, _)
ExpectedFrom(grid, r, c) ==
    IF r > Len(grid) THEN <<>>
    ELSE IF c > Len(grid[r]) THEN ExpectedFrom(grid, r + 1, 2)
    ELSE (IF CellIsPrice(grid[r][c]) /\ CellIsLabel(grid[r][c - 1])
          THEN << [nombre |-> CellText(grid[r][c - 1]),
                   precio |-> [n |-> CellNumber(grid[r][c]).n,
                               d |-> CellNumber(grid[r][c]).d]] >>
          ELSE <<>>)
         \o ExpectedFrom(grid, r, c + 1)

MeatsRead == last.op = "parse_excel" /\ last.file.readable

\* C14: for all grids, the Tabular Extractor emits a record for the cell at
\* (row, col >= 1) iff the cell is non-empty, contains a digit or a currency
\* marker, its first digit/separator run parses as a number after deleting
\* every '.' and replacing ',' by '.', and the cell to its left is
\* non-empty, is no header stopword (case-insensitive, trimmed) and is not
\* purely numeric after stripping '.' and ','; the record carries the left
\* cell's trimmed label and the parsed number, and the records come in
\* row-major scan order without deduplication.
C14_TabularExtraction ==
    MeatsRead => last.parsed = ExpectedFrom(last.file.grid, 1, 2)

\* a sheet read into the same record twice, and one whose row gave two
\* records, the second labelled by the first one's price cell
C14_Witness ==
    /\ MeatsRead
    /\ Len(last.file.grid) = 2
    /\ last.file.grid[1] = RowLomoTwice
    /\ last.file.grid[2] = RowHeader
    /\ Len(last.parsed) = 2
    /\ last.parsed[2].nombre = <<"x", " ", "5">>

\* the non-blank lines of a document, trimmed
RECURSIVE TrimmedLines(_)
TrimmedLines(lines) ==
    IF lines = <<>> THEN <<>>
    ELSE (IF Strip(Head(lines)) = <<>> THEN <<>> ELSE <<Strip(Head(lines))>>)
         \o TrimmedLines(Tail(lines))

\* the place of the first marker in a line, 0 when it has none
FirstMarker(line) ==
    IF \E i \in 1..Len(line) : line[i] = "$"
    THEN CHOOSE i \in 1..Len(line) :
            line[i] = "$" /\ \A j \in 1..(i - 1) : line[j] # "$"
    ELSE 0

\* the whole trimmed text after the first marker, read as a number with
\* every '.' removed
WholeRemainder(line) ==
    ParseFloat(RemoveChar(Strip(SubSeq(line, FirstMarker(line) + 1, Len(line))), "."))

\* the records C15 expects of the marker-bearing lines among lines
RECURSIVE MarkerRecords(_)
MarkerRecords(lines) ==
    IF lines = <<>> THEN <<>>
    ELSE (IF FirstMarker(Head(lines)) = 0 THEN <<>>
          ELSE << [nombre |-> Strip(SubSeq(Head(lines), 1, FirstMarker(Head(lines)) - 1)),
                   precio |-> [n |-> WholeRemainder(Head(lines)).n,
                               d |-> WholeRemainder(Head(lines)).d]] >>)
         \o MarkerRecords(Tail(lines))

\* some marker-bearing line has a remainder that is no number
SomeBadRemainder(lines) ==
    \E i \in 1..Len(lines) :
        FirstMarker(lines[i]) # 0 /\ ~WholeRemainder(lines[i]).ok

PdfRead == last.op = "parse_pdf" /\ last.file.readable

\* C15: the Line-Text Extractor splits each marker-bearing line once, at
\* the first currency marker: the name is the trimmed text before it and the
\* price the number parsed from the whole trimmed text after it with '.'
\* removed; lines without the marker are skipped; if for any line that
\* remainder is no number (it holds words, or a second marker), the
\* extraction of the whole document fails with the vegetable-document error
\* and yields no records.
C15_LineTextExtraction ==
    PdfRead =>
        LET lines == TrimmedLines(Flatten(last.file.pages))
        IN  IF SomeBadRemainder(lines)
            THEN last.raised /\ last.cause = PdfError /\ last.parsed = <<>>
            ELSE ~last.raised /\ last.parsed = MarkerRecords(lines)

MdParsed == last.op = "parse_md"

\* a title line: a single-hash heading marker, then the recipe name
TitleLine(line) == Len(line) >= 2 /\ line[1] = "#" /\ line[2] = " "

TitleName(line) == Strip(SubSeq(line, 3, Len(line)))

\* the names on the title lines of a document, in document order
RECURSIVE TitleNames(_)
TitleNames(lines) ==
    IF lines = <<>> THEN <<>>
    ELSE (IF TitleLine(Strip(Head(lines))) THEN <<TitleName(Strip(Head(lines)))>> ELSE <<>>)
         \o TitleNames(Tail(lines))

\* C16: for every input document, the Recipe Markup Parser returns exactly
\* one record per title line, in document order: each title line closes the
\* record in progress and opens a new one, the record in progress at the end
\* of the input is flushed, lines before the first title produce no record,
\* and two title lines with the same name give two separate records.
C16_OneRecordPerTitle ==
    MdParsed =>
        /\ ~last.raised
        /\ Len(last.parsed) = Len(TitleNames(last.file.lines))
        /\ \A i \in 1..Len(last.parsed) :
              last.parsed[i].nombre = TitleNames(last.file.lines)[i]

\* where the text of a list item starts: after "-", "*" or an alphanumeric
\* ordinal with its dot, and the blanks that follow; 1 without such a prefix
ItemStart(line) ==
    LET r == RunEnd(line, 1, AsciiLetters \cup Digits)
        mark == IF line # <<>> /\ line[1] \in {"-", "*"} THEN 1
                ELSE IF r >= 1 /\ r < Len(line) /\ line[r + 1] = "." THEN r + 1
                ELSE 0
        ws == RunEnd(line, mark + 1, Whitespace)
    IN  IF mark > 0 /\ ws > mark THEN ws + 1 ELSE 1

\* the ingredient on a line of the form <qty> <unit> de <name> or
\* <name>: <qty> <unit>, the quantity in kilograms; ok = FALSE otherwise
FormAt(line, p) ==
    IF RegexAlt1(line, p).matched THEN RegexAlt1(line, p) ELSE RegexAlt2(line, p)

IngredientOn(line) ==
    LET m == FormAt(line, ItemStart(line))
        q == ParseFloat(ReplaceChar(m.cant, ",", "."))
    IN  IF m.matched /\ q.ok
        THEN << [nombre |-> Strip(m.name),
                 cantidad_kg |-> [n |-> q.n,
                                  d |-> IF Lower(m.unit) = <<"g">> THEN q.d + 3 ELSE q.d]] >>
        ELSE <<>>

SectionHeading(line) == Len(line) >= 2 /\ line[1] = "#" /\ line[2] = "#"

\* the ingredient lists C17 expects, one per title line: the ingredients on
\* the lines of the ingredient section of each recipe
RECURSIVE ExpectedIngredients(_, _, _)
ExpectedIngredients(lines, lists, inside) ==
    IF lines = <<>> THEN lists
    ELSE LET line == Strip(Head(lines)) IN
         IF line = <<>> THEN ExpectedIngredients(Tail(lines), lists, inside)
         ELSE IF TitleLine(line)
              THEN ExpectedIngredients(Tail(lines), Append(lists, <<>>), FALSE)
         ELSE IF SectionHeading(line)
              THEN ExpectedIngredients(Tail(lines), lists,
                                       IF IsIngredientHeading(line) THEN lists # <<>>
                                       ELSE IF IsInstructionHeading(line) THEN FALSE
                                       ELSE inside)
         ELSE IF inside
              THEN ExpectedIngredients(Tail(lines),
                                       [lists EXCEPT ![Len(lists)] = @ \o IngredientOn(line)],
                                       inside)
         ELSE ExpectedIngredients(Tail(lines), lists, inside)

PapaOneKg == [nombre |-> <<"P", "a", "p", "a">>, cantidad_kg |-> [n |-> 1, d |-> 0]]
CarneHalfKg == [nombre |-> <<"C", "a", "r", "n", "e">>, cantidad_kg |-> [n |-> 5, d |-> 1]]

\* C17: inside the ingredient section of an open recipe, every line of the
\* form <qty> <unit> de <name> or <name>: <qty> <unit> with the unit kg or g
\* (any case), with or without a leading list-item prefix, appends exactly
\* one ingredient with the trimmed name and the quantity in kilograms (grams
\* divided by 1000, a comma accepted as the decimal separator): a recipe
\* whose ingredient section holds "1 kg de Papa" and "Carne: 0.5 kg" yields
\* the two ingredients (Papa, 1.0 kg) and (Carne, 0.5 kg), in that order.
C17_IngredientLines ==
    (MdParsed /\ ~last.raised) =>
        /\ Len(last.parsed) = Len(ExpectedIngredients(last.file.lines, <<>>, FALSE))
        /\ \A i \in 1..Len(last.parsed) :
              last.parsed[i].ingredientes
                  = ExpectedIngredients(last.file.lines, <<>>, FALSE)[i]
        /\ last.file = MdFile(BlockGuiso) =>
              last.parsed[1].ingredientes = <<PapaOneKg, CarneHalfKg>>

\* the extensions each upload endpoint accepts
OwnExtensions ==
    [upload_recipes |-> { <<".", "m", "d">> },
     upload_meats |-> { <<".", "x", "l", "s">>, <<".", "x", "l", "s", "x">> },
     upload_vegetables |-> { <<".", "p", "d", "f">> }]

\* the extension of a name of the model, in lower case
ExtensionOf ==
    (NameMd :> <<".", "m", "d">>) @@ (NameMdUpper :> <<".", "m", "d">>)
        @@ (NamePdf :> <<".", "p", "d", "f">>) @@ (NameXls :> <<".", "x", "l", "s">>)
        @@ (NameXlsx :> <<".", "x", "l", "s", "x">>) @@ (NameTxt :> <<".", "t", "x", "t">>)
        @@ (NameNoExt :> <<>>)

\* C18: each upload endpoint runs its pipeline only for a file with its own
\* accepted extension (recipes: .md; meat prices: .xls or .xlsx; vegetable
\* prices: .pdf); a file with any other extension is rejected with a
\* 400-class validation error before the pipeline is invoked, so the store
\* is unchanged and in particular no recipe is deleted.
C18_OwnExtensionOnly ==
    [][(/\ last'.op \in DOMAIN OwnExtensions
        /\ ExtensionOf[last'.name] \notin OwnExtensions[last'.op])
          => /\ last'.status = 400
             /\ ~last'.invoked
             /\ UNCHANGED <<ingredients, recipes, items, seq>>]_vars

\* an import of meat or vegetable prices that returned its summary
PricesImported == last.op \in IngredientImportOps /\ ~last.raised

\* C20: for every successful import-meats or import-vegetables run,
\* processed_count = total_input = the number of records the extractor
\* produced, each duplicate label counted separately (not the number of
\* distinct ingredients created or updated), and status is "success" iff
\* that number is above 0.
C20_CountOfInputRecords ==
    PricesImported =>
        /\ last.response.processed_count = Len(last.parsed)
        /\ last.response.total_input = Len(last.parsed)
        /\ last.response.status = IF Len(last.parsed) > 0 THEN "success" ELSE "failed"

\* a run whose two records name the same ingredient: the count is 2 and the
\* catalog holds that name once
C20_Witness ==
    /\ PricesImported
    /\ Len(last.parsed) = 2
    /\ NormalizedName(last.parsed[1].nombre) = NormalizedName(last.parsed[2].nombre)
    /\ last.response.processed_count = 2
    /\ Cardinality({i \in ingredients :
                       i.name = NormalizedName(last.parsed[1].nombre)}) = 1
    /\ Cardinality(ingredients) = 1

\* the names of a set of recipe rows
NamesOf(rows) == {r.name : r \in rows}

\* both workers' last runs have returned a summary
BothReturned ==
    \A w \in Workers : runs[w].pc = "done" /\ ~runs[w].raised

\* the store holds exactly the recipes that run w wrote
ReplacedBy(w) == recipes = runs[w].written.recipes

\* C19: two import-recipes runs that execute side by side can interleave
\* so that the store is not the accepted set of either run alone.  Once
\* both runs have returned, the store holds the recipes of one run, or
\* those of both together; it holds those of both together, or a run fails
\* on a recipe name the other run stored, only when the runs overlapped:
\* runs one after the other replace the whole table.
C19_SideBySideRuns ==
    /\ BothReturned
        => /\ \/ \E w \in Workers : ReplacedBy(w)
              \/ recipes = UNION {runs[w].written.recipes : w \in Workers}
           /\ (\A w \in Workers : ~ReplacedBy(w))
                 => \A w \in Workers : runs[w].overlapped
    /\ \A w \in Workers :
          (runs[w].pc = "done" /\ runs[w].cause = "IntegrityError")
              => runs[w].overlapped

\* both runs returned a summary of one created recipe and the store holds
\* the two recipes together, not the accepted set of either run
C19_Witness ==
    /\ BothReturned
    /\ \A w \in Workers : runs[w].response.processed_count = 1
    /\ \A w \in Workers : ~ReplacedBy(w)
    /\ NamesOf(recipes) = {<<"B", "i", "f", "e">>, <<"S", "o", "p", "a">>}

\* the parser's loop state after the first k lines of a document
ScanState(lines, k) == MdLines(MdStart, SubSeq(lines, 1, k))

\* one of NoRecipe, InInstructions, InIngredients: the ingredient-section
\* flag only with a recipe open
InThreeStates(st) == st.reading_ingredientes => st.current_receta # <<>>

\* C21: at every step of the line scan the Recipe Markup Parser is in one
\* of the states NoRecipe, InInstructions, InIngredients, the
\* ingredient-section flag being set only while a recipe is open; so for
\* every sequence of lines, an ingredient heading or ingredient line before
\* any title included, the parser finishes and returns its records.
C21_ThreeStatesNoFailure ==
    MdParsed =>
        /\ \A k \in 0..Len(last.file.lines) :
              /\ ~ScanState(last.file.lines, k).raised
              /\ InThreeStates(ScanState(last.file.lines, k))
        /\ ~last.raised

\* the recipe open in a loop state of the parser
OpenRecipe(st) == st.current_receta[1]

\* one step of the scan over the stripped line, from the state before with
\* a recipe open to the state after, routed as C22 has it
Routed(before, after, line) ==
    /\ TitleLine(line) => ~after.reading_ingredientes
    /\ IsInstructionHeading(line) => ~after.reading_ingredientes
    /\ (line # <<>> /\ line[1] # "#")
         => /\ after.current_receta # <<>>
            /\ OpenRecipe(after).nombre = OpenRecipe(before).nombre
            /\ IF before.reading_ingredientes
               THEN /\ OpenRecipe(after).instrucciones = OpenRecipe(before).instrucciones
                    /\ \/ OpenRecipe(after).ingredientes = OpenRecipe(before).ingredientes
                       \/ /\ regex_ing(line).matched
                          /\ Len(OpenRecipe(after).ingredientes)
                                = Len(OpenRecipe(before).ingredientes) + 1
                          /\ SubSeq(OpenRecipe(after).ingredientes, 1,
                                    Len(OpenRecipe(before).ingredientes))
                                = OpenRecipe(before).ingredientes
               ELSE /\ OpenRecipe(after).ingredientes = OpenRecipe(before).ingredientes
                    /\ OpenRecipe(after).instrucciones
                          = OpenRecipe(before).instrucciones \o line \o <<"\n">>

\* C22: in the Recipe Markup Parser every non-blank, non-heading line read
\* while a recipe is open goes to exactly one place: inside the ingredient
\* section it is appended as one ingredient (when it matches) or dropped,
\* and never reaches the instructions; outside it is appended, followed by
\* a newline, to the instructions of the open recipe and never to its
\* ingredients.  A title line always leaves the ingredient section, and an
\* instructions heading always ends it.
C22_LineRouting ==
    MdParsed =>
        \A k \in 1..Len(last.file.lines) :
            (/\ ~ScanState(last.file.lines, k - 1).raised
             /\ ScanState(last.file.lines, k - 1).current_receta # <<>>)
                => Routed(ScanState(last.file.lines, k - 1),
                          ScanState(last.file.lines, k),
                          Strip(last.file.lines[k]))

\* records i and j of the batch carry one recipe name, j is the last of
\* that name, and every ingredient of both is in the catalog
DuplicatePair(parsed, i, j) ==
    /\ i < j
    /\ parsed[i].nombre = parsed[j].nombre
    /\ \A k \in (j + 1)..Len(parsed) : parsed[k].nombre # parsed[j].nombre
    /\ Resolves(ingredients, parsed[i])
    /\ Resolves(ingredients, parsed[j])

\* the store holds exactly one recipe of the record's name, with the
\* record's instructions and one item per ingredient of the record
StoredOnceAs(rec) ==
    /\ Cardinality({r \in recipes : r.name = rec.nombre}) = 1
    /\ \A r \in recipes :
          r.name = rec.nombre
             => /\ r.instructions = rec.instrucciones
                /\ {it.pos : it \in {x \in items : x.recipe = r.id}}
                      = 1..Len(rec.ingredientes)

\* C23: when one parsed batch holds two records with the same recipe name
\* and all ingredients of both resolve, import-recipes completes without
\* error and the store holds exactly one recipe of that name, with the
\* instructions and items of the later record (last write wins).
C23_DuplicateNamesLastWins ==
    last.op = "import_recipes" =>
        \A i, j \in 1..Len(last.parsed) :
            DuplicatePair(last.parsed, i, j)
                => /\ ~last.raised
                   /\ StoredOnceAs(last.parsed[j])

\* every item belongs to a stored recipe and references a stored ingredient
ItemsReferenced ==
    \A it \in items :
        /\ \E r \in recipes : r.id = it.recipe
        /\ it.ingredient # NULL
        /\ \E i \in ingredients : i.id = it.ingredient

\* no two rows of a table share a name
NamesUnique(rows) == \A a, b \in rows : a.name = b.name => a = b

\* C24: in every state reachable by any sequence of ingredient imports,
\* recipe imports and cost calculations, successful or failed, every stored
\* item belongs to a stored recipe and references an ingredient of the
\* catalog (never a null reference), no two recipes share a name and no two
\* ingredients share a name; so the cost of a stored recipe counts all of
\* its items, at the prices current when the cost is calculated.
C24_ReferentialInvariants ==
    /\ ItemsReferenced
    /\ NamesUnique(recipes)
    /\ NamesUnique(ingredients)
    /\ CostReturned =>
          last.cost.total_ars
              = SumOfProducts({it \in items : it.recipe = last.request.recipe_id})

\* a cost returned for a stored recipe of two items, both counted, on a
\* store that holds another recipe with items too
C24_Witness ==
    /\ CostReturned
    /\ Cardinality({it \in items : it.recipe = last.request.recipe_id}) = 2
    /\ last.cost.total_ars > 0
    /\ \E it \in items : it.recipe # last.request.recipe_id

====
